---- MODULE Spec2Model ----
(* A model of the single-threaded incremental recomputation engine:        *)
(* the node graph, the height-indexed recalc queue, request / unrequest,   *)
(* dirty propagation, the stabilization loop and the reference             *)
(* computation nodes (Variable, Constant, Map, Cutoff, Then).              *)
EXTENDS Integers, Sequences, FiniteSets, TLC

\* ------------------------------------------------------------------ bounds
MaxNodes == 6
MaxHeight == 6
MaxGen == 4
MaxDirtyMarks == 2
MaxCleanParents == 2
ChainHeight == 3
MaxInserts == 3
MaxHandles == 2
MaxFreeNodes == 3
MaxIncrements == 3
MaxMounts == 1

Nodes == 1..MaxNodes
None == 0
NoVal == -1
PanicVal == -2

VARIABLES
    nodes,              \* Node bookkeeping cells, one record per arena slot
    anchor,             \* Node::anchor: the boxed computation of each node
    recalc_queues,      \* Graph::recalc_queues: height -> head of bucket
    recalc_min_height,
    recalc_max_height,
    dirty_marks,        \* Engine::dirty_marks
    generation,         \* Engine::generation
    panic,              \* "none", or the panic that ended the program
    pc,                 \* "idle", or "run" inside stabilize0
    op,                 \* the public operation in progress
    target,             \* the anchor passed to Engine::get
    result,             \* value returned by the last Engine::get
    fcalls,             \* closure invocations, in order, in this operation
    polls,              \* <<node, height, result, pending_on_anchor_get,
                        \*   requests>>
                        \* of each poll_updated, in order
    topo,               \* which program (graph construction) is running
    call,               \* last direct ensure_height_increases call (graph tests)
    free_head,          \* Graph::free_head
    arena_len,          \* number of nodes the arena has allocated
    test                \* what the graph tests hold: keys, guards, results

vars == <<nodes, anchor, recalc_queues, recalc_min_height, recalc_max_height,
          dirty_marks, generation, panic, pc, op, target, result, fcalls,
          polls, topo, call, free_head, arena_len, test>>

\* The engine state as one value, threaded through the operations.
St ==
    [nodes |-> nodes, anchor |-> anchor, recalc_queues |-> recalc_queues,
     recalc_min_height |-> recalc_min_height,
     recalc_max_height |-> recalc_max_height,
     dirty_marks |-> dirty_marks, generation |-> generation,
     panic |-> panic, pending_on_anchor_get |-> FALSE,
     fcalls |-> fcalls, polls |-> polls,
     free_head |-> free_head, arena_len |-> arena_len]

\* ------------------------------------------------------------ node records
NewNode ==
    [observed |-> FALSE, visited |-> FALSE, necessary_count |-> 0,
     height |-> 0, recalc_state |-> "Needed",
     last_ready |-> None, last_update |-> None,
     clean_parents |-> <<>>,        \* clean_parent0 followed by clean_parents
     necessary_children |-> {},     \* sorted, duplicate-free vector
     next |-> None, prev |-> None, handle_count |-> 1]

height(s, n) == s.nodes[n].height

recalc_state(s, n) == s.nodes[n].recalc_state

needs_recalc(s, n) ==
    IF s.nodes[n].recalc_state # "Ready" THEN s
    ELSE [s EXCEPT !.nodes[n].recalc_state = "Needed"]

check_observed_raw(s, n) ==
    IF s.nodes[n].observed THEN "Observed"
    ELSE IF s.nodes[n].necessary_count > 0 THEN "Necessary"
    ELSE "Unnecessary"

\* ------------------------------------------------------------ recalc queue
\* recalc_queues.len(), the max_height the graph was constructed with
recalc_queues_len(s) == Cardinality(DOMAIN s.recalc_queues)

\* Mutant: no height check; a node at or above the maximum height is marked
\* Pending and left out of the queue.
queue_recalc_unchecked(s, n) ==
    IF s.panic # "none" \/ s.nodes[n].recalc_state = "Pending" THEN s
    ELSE LET s1 == [s EXCEPT !.nodes[n].recalc_state = "Pending"]
             h == s.nodes[n].height
         IN  IF h >= recalc_queues_len(s)
             THEN s1
             ELSE LET old == s.recalc_queues[h] IN
                  IF old # None
                  THEN [s1 EXCEPT !.nodes[old].prev = n,
                                  !.nodes[n].next = old,
                                  !.recalc_queues[h] = n]
                  ELSE [s1 EXCEPT
                          !.recalc_min_height = IF @ > h THEN h ELSE @,
                          !.recalc_max_height = IF @ < h THEN h ELSE @,
                          !.recalc_queues[h] = n]

\* Mutant: a height at or above the maximum is clamped to the last bucket.
queue_recalc_clamps(s, n) ==
    IF s.panic # "none" \/ s.nodes[n].recalc_state = "Pending" THEN s
    ELSE LET s1 == [s EXCEPT !.nodes[n].recalc_state = "Pending"]
             top == recalc_queues_len(s) - 1
             h == IF s.nodes[n].height > top THEN top ELSE s.nodes[n].height
             old == s.recalc_queues[h]
         IN  IF old # None
             THEN [s1 EXCEPT !.nodes[old].prev = n,
                             !.nodes[n].next = old,
                             !.recalc_queues[h] = n]
             ELSE [s1 EXCEPT
                     !.recalc_min_height = IF @ > h THEN h ELSE @,
                     !.recalc_max_height = IF @ < h THEN h ELSE @,
                     !.recalc_queues[h] = n]

\* Mutant: an enqueue into an empty bucket never lowers recalc_min_height.
queue_recalc_keeps_min(s, n) ==
    IF s.panic # "none" \/ s.nodes[n].recalc_state = "Pending" THEN s
    ELSE LET s1 == [s EXCEPT !.nodes[n].recalc_state = "Pending"]
             h == s.nodes[n].height
         IN  IF h >= recalc_queues_len(s)
             THEN [s1 EXCEPT !.panic = "height"]
             ELSE LET old == s.recalc_queues[h] IN
                  IF old # None
                  THEN [s1 EXCEPT !.nodes[old].prev = n,
                                  !.nodes[n].next = old,
                                  !.recalc_queues[h] = n]
                  ELSE [s1 EXCEPT
                          !.recalc_min_height =
                              IF @ = recalc_queues_len(s) THEN h ELSE @,
                          !.recalc_max_height = IF @ < h THEN h ELSE @,
                          !.recalc_queues[h] = n]

\* Mutant: no early return for a node that is already Pending.
queue_recalc_relinks(s, n) ==
    IF s.panic # "none" THEN s
    ELSE LET s1 == [s EXCEPT !.nodes[n].recalc_state = "Pending"]
             h == s.nodes[n].height
         IN  IF h >= recalc_queues_len(s)
             THEN [s1 EXCEPT !.panic = "height"]
             ELSE LET old == s.recalc_queues[h] IN
                  IF old # None
                  THEN [s1 EXCEPT !.nodes[old].prev = n,
                                  !.nodes[n].next = old,
                                  !.recalc_queues[h] = n]
                  ELSE [s1 EXCEPT
                          !.recalc_min_height = IF @ > h THEN h ELSE @,
                          !.recalc_max_height = IF @ < h THEN h ELSE @,
                          !.recalc_queues[h] = n]

queue_recalc(s, n) ==
    IF s.panic # "none" \/ s.nodes[n].recalc_state = "Pending" THEN s
    ELSE LET s1 == [s EXCEPT !.nodes[n].recalc_state = "Pending"]
             h == s.nodes[n].height
         IN  IF h >= recalc_queues_len(s)
             THEN [s1 EXCEPT !.panic = "height"]
             ELSE LET old == s.recalc_queues[h] IN
                  IF old # None
                  THEN [s1 EXCEPT !.nodes[old].prev = n,
                                  !.nodes[n].next = old,
                                  !.recalc_queues[h] = n]
                  ELSE [s1 EXCEPT
                          !.recalc_min_height = IF @ > h THEN h ELSE @,
                          !.recalc_max_height = IF @ < h THEN h ELSE @,
                          !.recalc_queues[h] = n]

RECURSIVE recalc_pop_next(_)
recalc_pop_next(s) ==
    IF s.recalc_min_height <= s.recalc_max_height
    THEN LET m == s.recalc_min_height
             ptr == s.recalc_queues[m]
         IN  IF ptr # None
             THEN LET nx == s.nodes[ptr].next
                      s1 == [s EXCEPT !.recalc_queues[m] = nx]
                      s2 == IF nx # None
                            THEN [s1 EXCEPT !.nodes[nx].prev = None]
                            ELSE s1
                      s3 == [s2 EXCEPT !.nodes[ptr].prev = None,
                                       !.nodes[ptr].next = None,
                                       !.nodes[ptr].recalc_state = "Ready"]
                  IN  [s |-> s3, node |-> ptr, height |-> m]
             ELSE recalc_pop_next([s EXCEPT !.recalc_min_height = m + 1])
    ELSE [s |-> [s EXCEPT !.recalc_max_height = 0],
          node |-> None, height |-> 0]

\* --------------------------------------------------- heights, cycle check
\* Mutant: a height raise that is not propagated to the clean parents.
set_min_height_skips_parents(s, ps, i, min_height, did_err) ==
    [s |-> s, did_err |-> did_err]

RECURSIVE set_min_height(_, _, _)
RECURSIVE set_min_height_parents(_, _, _, _, _)
set_min_height(s, node, min_height) ==
    IF s.nodes[node].visited THEN [s |-> s, ok |-> FALSE]
    ELSE IF s.nodes[node].height < min_height
    THEN LET after(r) ==
                 IF r.did_err THEN [s |-> r.s, ok |-> FALSE]
                 ELSE [s |-> [r.s EXCEPT !.nodes[node].visited = FALSE],
                       ok |-> TRUE]
         IN  after(set_min_height_parents(
                     [s EXCEPT !.nodes[node].visited = TRUE,
                               !.nodes[node].height = min_height],
                     s.nodes[node].clean_parents, 1, min_height + 1, FALSE))
    ELSE [s |-> [s EXCEPT !.nodes[node].visited = FALSE], ok |-> TRUE]

set_min_height_parents(s, ps, i, min_height, did_err) ==
    IF i > Len(ps) THEN [s |-> s, did_err |-> did_err]
    ELSE LET rest(r) == set_min_height_parents(r.s, ps, i + 1, min_height,
                                               did_err \/ ~r.ok)
         IN  rest(set_min_height(s, ps[i], min_height))

\* Mutant: an ensure_height_increases that flags the parent, not the child.
ensure_height_flags_parent(s, child, parent) ==
    IF height(s, child) < height(s, parent) THEN [s |-> s, res |-> "true"]
    ELSE LET after(r) ==
                 [s |-> [r.s EXCEPT !.nodes[parent].visited = FALSE],
                  res |-> IF r.ok THEN "false" ELSE "err"]
         IN  after(set_min_height([s EXCEPT !.nodes[parent].visited = TRUE],
                                  parent, height(s, child) + 1))

\* res: "true" = Ok(true), "false" = Ok(false), "err" = Err(())
ensure_height_increases(s, child, parent) ==
    IF height(s, child) < height(s, parent) THEN [s |-> s, res |-> "true"]
    ELSE LET after(r) ==
                 [s |-> [r.s EXCEPT !.nodes[child].visited = FALSE],
                  res |-> IF r.ok THEN "false" ELSE "err"]
         IN  after(set_min_height([s EXCEPT !.nodes[child].visited = TRUE],
                                  parent, height(s, child) + 1))

\* ------------------------------------------------- parent / child lists
add_clean_parent(s, self, parent) ==
    [s EXCEPT !.nodes[self].clean_parents = Append(@, parent)]

\* Mutant: the child is listed and its count is left alone.
add_necessary_child_uncounted(s, self, child) ==
    [s EXCEPT !.nodes[self].necessary_children = @ \cup {child}]

add_necessary_child(s, self, child) ==
    IF child \in s.nodes[self].necessary_children THEN s
    ELSE [s EXCEPT !.nodes[self].necessary_children = @ \cup {child},
                   !.nodes[child].necessary_count = @ + 1]

remove_necessary_child(s, self, child) ==
    IF child \in s.nodes[self].necessary_children
    THEN [s EXCEPT !.nodes[self].necessary_children = @ \ {child},
                   !.nodes[child].necessary_count = @ - 1]
    ELSE s

RECURSIVE SortedSeq(_)
SortedSeq(S) ==
    IF S = {} THEN <<>>
    ELSE LET m == CHOOSE x \in S : \A y \in S : x <= y
         IN  <<m>> \o SortedSeq(S \ {m})

drain_necessary_children(s, self) ==
    [s EXCEPT !.nodes = [n \in Nodes |->
        IF n = self THEN [@[n] EXCEPT !.necessary_children = {}]
        ELSE IF n \in s.nodes[self].necessary_children
             THEN [@[n] EXCEPT !.necessary_count = @ - 1]
             ELSE @[n]]]

\* Mutant: the children are released but their own children are not.
update_necessary_children_shallow(s, node) ==
    IF check_observed_raw(s, node) # "Unnecessary" THEN s
    ELSE drain_necessary_children(s, node)

RECURSIVE update_necessary_children(_, _)
RECURSIVE update_necessary_children_loop(_, _, _)
update_necessary_children(s, node) ==
    IF check_observed_raw(s, node) # "Unnecessary" THEN s
    ELSE update_necessary_children_loop(
            drain_necessary_children(s, node),
            SortedSeq(s.nodes[node].necessary_children), 1)

update_necessary_children_loop(s, cs, i) ==
    IF i > Len(cs) THEN s
    ELSE update_necessary_children_loop(
            update_necessary_children(s, cs[i]), cs, i + 1)

\* ------------------------------------------- computations (AnchorCore)
\* One record shape for every kind of computation; a kind reads only the
\* fields its Rust struct has.
Core(kind, anchors, f, cands, value) ==
    [kind |-> kind,
     anchors |-> anchors,           \* input anchors (Map, Cutoff, Then)
     f |-> f,                       \* which closure the node was built with
     cands |-> cands,               \* anchors captured by a Then closure
     output |-> NoVal,              \* Map::output
     output_stale |-> TRUE,         \* Map::output_stale
     f_anchor |-> None,             \* Then::f_anchor
     lhs_stale |-> TRUE,            \* Then::lhs_stale
     value |-> value,               \* VarShared::value / ConstAnchor::value
     value_changed |-> TRUE,        \* VarShared::value_changed
     dirty_handle |-> FALSE,        \* VarShared::dirty_handle.is_some()
     val |-> value,                 \* VarAnchor::value (snapshot)
     first_poll |-> TRUE,           \* ConstAnchor::first_poll
     old_num |-> NoVal,             \* state captured by the doc-test cutoff
     unrequested |-> {},            \* passed to unrequest, not requested since
     stale_dirty |-> FALSE]         \* mark_dirty was called for one of those

NoCore == Core("none", <<>>, "none", <<>>, NoVal)

\* --------------------------------------------- arena, free list, keys
\* Graph::token: the stamp Graph::new draws for the thread's first graph.
token == 0

\* A NodeKey (ptr, token) and the absence of one.
NodeKey(ptr, tok) == [ptr |-> ptr, token |-> tok]

NoKey == NodeKey(None, None)

\* NodeGuard::key / AnchorHandle::token
key(n) == NodeKey(n, token)

\* Graph::accepts_key
accepts_key(node_key) == node_key.token = token

\* GraphGuard::get: the node the key resolves to, None for Option::None.
GraphGuard_get(node_key) ==
    IF ~accepts_key(node_key) THEN None ELSE node_key.ptr

\* Graph::insert: [s, ptr]; the first free node, reset, or a new arena node.
Graph_insert(s, core) ==
    IF s.free_head # None
    THEN LET node == s.free_head
             nx == s.nodes[node].next
             s1 == [s EXCEPT !.free_head = nx]
             s2 == IF nx # None THEN [s1 EXCEPT !.nodes[nx].prev = None]
                   ELSE s1
         IN  [s |-> [s2 EXCEPT !.nodes[node] = NewNode,
                               !.anchor[node] = core],
              ptr |-> node]
    ELSE LET node == s.arena_len + 1
         IN  [s |-> [s EXCEPT !.arena_len = node,
                              !.nodes[node] = NewNode,
                              !.anchor[node] = core],
              ptr |-> node]

\* dequeue_calc: unlink a Pending node from the bucket of its height.
dequeue_calc(s, node) ==
    IF s.nodes[node].recalc_state # "Pending" THEN s
    ELSE LET prev == s.nodes[node].prev
             h == s.nodes[node].height
             unlinked(s1) ==
                 IF s1.panic # "none" THEN s1
                 ELSE LET next == s1.nodes[node].next
                          s2 == IF next # None
                                THEN [s1 EXCEPT !.nodes[next].next =
                                                    s1.nodes[node].prev]
                                ELSE s1
                      IN  [s2 EXCEPT !.nodes[node].prev = None,
                                     !.nodes[node].next = None]
         IN  unlinked(
               IF prev # None
               THEN [s EXCEPT !.nodes[prev].next = s.nodes[node].next]
               ELSE IF h >= recalc_queues_len(s)
               THEN [s EXCEPT !.panic = "index"]
               ELSE IF s.recalc_queues[h] # node
               THEN [s EXCEPT !.panic = "assert"]
               ELSE [s EXCEPT !.recalc_queues[h] = s.nodes[node].next])

\* The handles a computation owns, in the order its fields are dropped.
held(core) ==
    core.anchors \o core.cands \o
        (IF core.f_anchor # None THEN <<core.f_anchor>> ELSE <<>>)

\* AnchorHandle::clone
AnchorHandle_clone(s, n) == [s EXCEPT !.nodes[n].handle_count = @ + 1]

\* AnchorHandle::drop and free: the last handle frees the node, and
\* clearing its computation drops the handles the computation owned.
RECURSIVE AnchorHandle_drop(_, _)
RECURSIVE free(_, _)
RECURSIVE drop_handles(_, _, _)
AnchorHandle_drop(s, n) ==
    IF s.panic # "none" THEN s
    ELSE LET new_count == s.nodes[n].handle_count - 1
             s1 == [s EXCEPT !.nodes[n].handle_count = new_count]
         IN  IF new_count = 0 THEN free(s1, n) ELSE s1

free(s, ptr) ==
    LET link(s1) ==
            IF s1.panic # "none" THEN s1
            ELSE LET old_free == s1.free_head
                     s2 == IF old_free # None
                           THEN [s1 EXCEPT !.nodes[old_free].prev = ptr]
                           ELSE s1
                 IN  drop_handles(
                         [s2 EXCEPT !.nodes[ptr].next = old_free,
                                    !.free_head = ptr,
                                    !.anchor[ptr] = NoCore],
                         held(s.anchor[ptr]), 1)
    IN  link(dequeue_calc(
                [drain_necessary_children(s, ptr)
                    EXCEPT !.nodes[ptr].clean_parents = <<>>],
                ptr))

drop_handles(s, hs, i) ==
    IF i > Len(hs) THEN s
    ELSE drop_handles(AnchorHandle_drop(s, hs[i]), hs, i + 1)

\* The closures the programs below hand to map().
MapFn(f, args) ==
    CASE f = "inc"   -> args[1] + 1
      [] f = "plus2" -> args[1] + 2
      [] f = "dbl"   -> args[1] * 2
      [] f = "half"  -> args[1] \div 2
      [] f = "add"   -> args[1] + args[2]

Abs(x) == IF x < 0 THEN -x ELSE x

\* The closures handed to cutoff(): [res, old_num] for input x.
CutoffFn(f, old_num, x) ==
    CASE f = "abs_ge10" -> [res |-> Abs(x) >= 10, old_num |-> old_num]
      [] f = "delta10"  ->
            IF old_num # NoVal /\ Abs(old_num - x) < 10
            THEN [res |-> FALSE, old_num |-> old_num]
            ELSE [res |-> TRUE, old_num |-> x]

\* The closure handed to then(): if *b { cands[1] } else { cands[2] }.
ThenFn(cands, x) == IF x # 0 THEN cands[1] ELSE cands[2]

\* Log entry for one invocation of node n's closure: first = no earlier
\* output existed, out = what the closure returned (1/0 for a predicate).
FCall(n, first, out) == [n |-> n, first |-> first, out |-> out]

\* AnchorCore::output / OutputContext::get; PanicVal when the code panics.
RECURSIVE output(_, _)
RECURSIVE ctx_get(_, _)
output(s, n) ==
    LET a == s.anchor[n] IN
    CASE a.kind = "var"    -> a.val
      [] a.kind = "const"  -> a.value
      [] a.kind = "map"    -> IF a.output = NoVal THEN PanicVal ELSE a.output
      [] a.kind = "cutoff" -> ctx_get(s, a.anchors[1])
      [] a.kind = "then"   -> ctx_get(s, a.f_anchor)
      [] OTHER             -> PanicVal

ctx_get(s, n) ==
    IF n = None \/ s.nodes[n].recalc_state # "Ready" THEN PanicVal
    ELSE output(s, n)

\* Mutant: a mark_dirty that forgets to record the invalidation.
dirty_forgets(s, n, edge) ==
    IF s.anchor[n].kind \in {"map", "cutoff", "then"} THEN s
    ELSE [s EXCEPT !.panic = "dirty"]

\* Mutant: a Then::mark_dirty that never sets lhs_stale.
dirty_keeps_lhs(s, n, edge) ==
    LET a == s.anchor[n] IN
    CASE a.kind = "map"    -> [s EXCEPT !.anchor[n].output_stale = TRUE]
      [] a.kind = "cutoff" -> s
      [] a.kind = "then"   -> s
      [] OTHER             -> [s EXCEPT !.panic = "dirty"]

\* AnchorCore::mark_dirty of node n for input edge.
dirty(s, n, edge) ==
    LET a == s.anchor[n]
        s0 == IF edge \in a.unrequested
              THEN [s EXCEPT !.anchor[n].stale_dirty = TRUE]
              ELSE s
    IN
    CASE a.kind = "map"    -> [s0 EXCEPT !.anchor[n].output_stale = TRUE]
      [] a.kind = "cutoff" -> s0
      [] a.kind = "waits"  -> s0
      [] a.kind = "then"   ->
            IF \E i \in 1..Len(a.anchors) : a.anchors[i] = edge
            THEN [s0 EXCEPT !.anchor[n].lhs_stale = TRUE]
            ELSE s0
      [] OTHER             -> [s0 EXCEPT !.panic = "dirty"]

\* ------------------------------------------------------ EngineContextMut
\* Mutant: a request that reports every ready child as Updated.
always_updated(last_update, last_ready) == "Updated"

\* The match on (child.last_update, self.last_ready) that ends request.
generation_poll(last_update, last_ready) ==
    IF last_update # None /\ last_ready # None /\ last_update <= last_ready
    THEN "Unchanged" ELSE "Updated"

\* Mutant: a request of a child that is not Ready queues the child and
\* answers as if the child were Ready.
request_never_pending(s, self, child, necessary) ==
    IF s.panic # "none" THEN [s |-> s, poll |-> "Pending"]
    ELSE
    LET after(s1, res) ==
            LET a == s1.nodes[child].last_update
                b == s1.nodes[self].last_ready
            IN
            IF res = "err"
            THEN [s |-> [s1 EXCEPT !.panic = "loop"], poll |-> "Pending"]
            ELSE IF recalc_state(s1, child) # "Ready"
            THEN [s |-> queue_recalc(s1, child),
                  poll |-> generation_poll(a, b)]
            ELSE [s |-> add_clean_parent(s1, child, self),
                  poll |-> generation_poll(a, b)]
        split(e) == after(e.s, e.res)
    IN  split(ensure_height_increases(s, child, self))

\* What one returned call of request saw and did: the state of the child and
\* the two heights before the call, the child's clean parents before and after
\* it, the two generations it compared, and the Poll it returned.
RequestRecord(before, after, self, child, poll) ==
    [self |-> self, child |-> child,
     child_ready |-> recalc_state(before, child) = "Ready",
     lower |-> height(before, child) < height(before, self),
     parents_before |-> before.nodes[child].clean_parents,
     parents_after |-> after.nodes[child].clean_parents,
     last_update |-> before.nodes[child].last_update,
     last_ready |-> before.nodes[self].last_ready,
     poll |-> poll]

\* EngineContextMut::request.
request(s, self, child, necessary) ==
    IF s.panic # "none" THEN [s |-> s, poll |-> "Pending"]
    ELSE
    LET after(s0, res) ==
            LET s1 == [s0 EXCEPT !.anchor[self].unrequested = @ \ {child}]
                self_is_necessary ==
                    check_observed_raw(s1, self) # "Unnecessary"
                addnc(t) == IF necessary /\ self_is_necessary
                            THEN add_necessary_child(t, self, child)
                            ELSE t
                a == s1.nodes[child].last_update
                b == s1.nodes[self].last_ready
                logged(r) ==
                    IF r.s.panic # "none" \/ r.s.polls = <<>> THEN r
                    ELSE [r EXCEPT !.s.polls[Len(r.s.polls)][5] =
                            Append(@, RequestRecord(s, r.s, self, child,
                                                    r.poll))]
            IN
            IF res = "err"
            THEN [s |-> [s1 EXCEPT !.panic = "loop"], poll |-> "Pending"]
            ELSE IF recalc_state(s1, child) # "Ready"
            THEN logged([s |-> addnc(queue_recalc(
                            [s1 EXCEPT !.pending_on_anchor_get = TRUE],
                            child)),
                  poll |-> "Pending"])
            ELSE IF res = "false"
            THEN logged([s |-> [s1 EXCEPT !.pending_on_anchor_get = TRUE],
                  poll |-> "Pending"])
            ELSE logged([s |-> addnc(add_clean_parent(s1, child, self)),
                  poll |-> generation_poll(a, b)])
        split(e) == after(e.s, e.res)
    IN  split(ensure_height_increases(s, child, self))

\* Mutant: an unrequest that leaves the child listed.
unrequest_keeps_child(s, self, child) ==
    update_necessary_children(
        [s EXCEPT !.anchor[self].unrequested = @ \cup {child}], child)

\* EngineContextMut::unrequest.
unrequest(s, self, child) ==
    update_necessary_children(
        remove_necessary_child(
            [s EXCEPT !.anchor[self].unrequested = @ \cup {child}],
            self, child),
        child)

\* The $( match ctx.request(&self.anchors.$num, true) {...} )+ expansion.
RECURSIVE request_all(_, _, _, _, _, _)
request_all(s, self, as, i, found_pending, found_updated) ==
    IF i > Len(as)
    THEN [s |-> s, found_pending |-> found_pending,
          found_updated |-> found_updated]
    ELSE LET rest(r) == request_all(r.s, self, as, i + 1,
                                    found_pending \/ r.poll = "Pending",
                                    found_updated \/ r.poll = "Updated")
         IN  rest(request(s, self, as[i], TRUE))

GetAll(s, as) == [i \in 1..Len(as) |-> ctx_get(s, as[i])]

HasPanicVal(vs) == \E i \in 1..Len(vs) : vs[i] = PanicVal

\* ---------------------------------------------------------- poll_updated
\* Mutant: a VarAnchor that never copies the new value.
Var_keeps_snapshot(s, self) ==
    [s |-> [s EXCEPT !.anchor[self].dirty_handle = TRUE,
                     !.anchor[self].value_changed = FALSE],
     poll |-> IF s.anchor[self].value_changed THEN "Updated"
              ELSE "Unchanged"]

Var_poll_updated(s, self) ==
    LET a == s.anchor[self]
        s1 == [s EXCEPT !.anchor[self].dirty_handle = TRUE,
                        !.anchor[self].value_changed = FALSE]
    IN  IF a.value_changed
        THEN [s |-> [s1 EXCEPT !.anchor[self].val = a.value],
              poll |-> "Updated"]
        ELSE [s |-> s1, poll |-> "Unchanged"]

Const_poll_updated(s, self) ==
    [s |-> [s EXCEPT !.anchor[self].first_poll = FALSE],
     poll |-> IF s.anchor[self].first_poll THEN "Updated" ELSE "Unchanged"]

Map_poll_updated(s, self) ==
    LET a == s.anchor[self] IN
    IF ~a.output_stale /\ a.output # NoVal
    THEN [s |-> s, poll |-> "Unchanged"]
    ELSE
    LET store(s1, new_val) ==
            LET s2 == [s1 EXCEPT !.fcalls =
                          Append(@, FCall(self, a.output = NoVal, new_val))]
            IN  IF new_val # a.output
                THEN [s |-> [s2 EXCEPT !.anchor[self].output = new_val],
                      poll |-> "Updated"]
                ELSE [s |-> s2, poll |-> "Unchanged"]
        apply(s1, args) ==
            IF HasPanicVal(args)
            THEN [s |-> [s1 EXCEPT !.panic = "get"], poll |-> "Pending"]
            ELSE store(s1, MapFn(a.f, args))
        fresh(s1, found_updated) ==
            IF a.output = NoVal \/ found_updated
            THEN apply(s1, GetAll(s1, a.anchors))
            ELSE [s |-> s1, poll |-> "Unchanged"]
        after(r) ==
            IF r.s.panic # "none" \/ r.found_pending
            THEN [s |-> r.s, poll |-> "Pending"]
            ELSE fresh([r.s EXCEPT !.anchor[self].output_stale = FALSE],
                       r.found_updated)
    IN  after(request_all(s, self, a.anchors, 1, FALSE, FALSE))

Cutoff_poll_updated(s, self) ==
    LET a == s.anchor[self]
        store(s1, c) ==
            [s |-> [s1 EXCEPT
                      !.fcalls = Append(@, FCall(self,
                          s.nodes[self].last_ready = None,
                          IF c.res THEN 1 ELSE 0)),
                      !.anchor[self].old_num = c.old_num],
             poll |-> IF c.res THEN "Updated" ELSE "Unchanged"]
        apply(s1, x) ==
            IF x = PanicVal
            THEN [s |-> [s1 EXCEPT !.panic = "get"], poll |-> "Pending"]
            ELSE store(s1, CutoffFn(a.f, a.old_num, x))
        after(r) ==
            IF r.s.panic # "none" \/ r.poll # "Updated" THEN r
            ELSE apply(r.s, ctx_get(r.s, a.anchors[1]))
    IN  after(request(s, self, a.anchors[1], TRUE))

Then_poll_updated(s, self) ==
    \* The if-block returns Pending early (ret) or falls through to the
    \* final ctx.request(self.f_anchor, true).
    LET a == s.anchor[self]
        final(l) ==
            IF l.ret THEN [s |-> l.s, poll |-> "Pending"]
            ELSE request(l.s, self, l.s.anchor[self].f_anchor, TRUE)
        \* The closure returns a clone of the anchor it captured; storing
        \* it in f_anchor drops the handle stored there before.
        store(s1, new_anchor) ==
            LET s2 == AnchorHandle_clone(
                          [s1 EXCEPT !.fcalls =
                              Append(@, FCall(self, a.f_anchor = None,
                                              new_anchor))],
                          new_anchor)
                s3 == IF a.f_anchor # None /\ a.f_anchor # new_anchor
                      THEN unrequest(s2, self, a.f_anchor)
                      ELSE s2
                s4 == [s3 EXCEPT !.anchor[self].f_anchor = new_anchor]
            IN  [s |-> IF a.f_anchor # None
                       THEN AnchorHandle_drop(s4, a.f_anchor)
                       ELSE s4,
                 ret |-> FALSE]
        apply(s1, args) ==
            IF HasPanicVal(args)
            THEN [s |-> [s1 EXCEPT !.panic = "get"], ret |-> TRUE]
            ELSE store(s1, ThenFn(a.cands, args[1]))
        fresh(s1, found_updated) ==
            IF a.f_anchor = None \/ found_updated
            THEN apply(s1, GetAll(s1, a.anchors))
            ELSE [s |-> s1, ret |-> FALSE]
        after(r) ==
            IF r.s.panic # "none" \/ r.found_pending
            THEN [s |-> r.s, ret |-> TRUE]
            ELSE fresh([r.s EXCEPT !.anchor[self].lhs_stale = FALSE],
                       r.found_updated)
    IN  final(IF a.f_anchor = None \/ a.lhs_stale
              THEN after(request_all(s, self, a.anchors, 1, FALSE, FALSE))
              ELSE [s |-> s, ret |-> FALSE])

\* An AnchorCore of the application that requests its input and reports
\* Pending whatever the request answered.
Waits_poll_updated(s, self) ==
    LET after(r) == [s |-> r.s, poll |-> "Pending"]
    IN  after(request(s, self, s.anchor[self].anchors[1], TRUE))

poll_updated(s, self) ==
    LET k == s.anchor[self].kind IN
    CASE k = "var"    -> Var_poll_updated(s, self)
      [] k = "const"  -> Const_poll_updated(s, self)
      [] k = "map"    -> Map_poll_updated(s, self)
      [] k = "cutoff" -> Cutoff_poll_updated(s, self)
      [] k = "then"   -> Then_poll_updated(s, self)
      [] k = "waits"  -> Waits_poll_updated(s, self)
      \* node.anchor is None: recalculate's as_mut().unwrap() panics
      [] k = "none"   -> [s |-> [s EXCEPT !.panic = "unwrap"],
                          poll |-> "Pending"]

\* ------------------------------------------------------ dirty propagation
\* Mutant: a mark_dirty0 that never enqueues, not even a necessary node.
mark_dirty0_never_queues(s, next) ==
    IF s.panic # "none" THEN s ELSE needs_recalc(s, next)

\* Mutant: a mark_dirty0 that enqueues every node, necessary or not.
mark_dirty0_always_queues(s, next) ==
    IF s.panic # "none" THEN s ELSE queue_recalc(s, next)

RECURSIVE mark_dirty0(_, _)
RECURSIVE mark_dirty0_parents(_, _, _, _)
mark_dirty0(s, next) ==
    IF s.panic # "none" THEN s
    ELSE IF check_observed_raw(s, next) # "Unnecessary"
    THEN queue_recalc(s, next)
    ELSE IF recalc_state(s, next) = "Ready"
    THEN LET s1 == needs_recalc(s, next)
             parents == s1.nodes[next].clean_parents
             s2 == [s1 EXCEPT !.nodes[next].clean_parents = <<>>]
         IN  mark_dirty0_parents(s2, parents, 1, next)
    ELSE s

mark_dirty0_parents(s, parents, i, id) ==
    IF i > Len(parents) \/ s.panic # "none" THEN s
    ELSE LET parent == parents[i] IN
         IF s.anchor[parent].kind = "none"
         THEN mark_dirty0_parents(s, parents, i + 1, id)
         ELSE mark_dirty0_parents(
                 mark_dirty0(dirty(s, parent, id), parent),
                 parents, i + 1, id)

\* Mutant: a mark_dirty that reaches only the first clean parent.
mark_dirty_first_parent(s, parents, i, id) ==
    IF parents = <<>> \/ s.panic # "none" THEN s
    ELSE mark_dirty0(dirty(s, parents[1], id), parents[1])

RECURSIVE mark_dirty_parents(_, _, _, _)
mark_dirty_parents(s, parents, i, id) ==
    IF i > Len(parents) \/ s.panic # "none" THEN s
    ELSE LET parent == parents[i] IN
         IF s.anchor[parent].kind = "none"
         THEN [s EXCEPT !.panic = "unwrap"]
         ELSE mark_dirty_parents(
                 mark_dirty0(dirty(s, parent, id), parent),
                 parents, i + 1, id)

mark_dirty(s, node, skip_self) ==
    IF skip_self
    THEN mark_dirty_parents(
            [s EXCEPT !.nodes[node].clean_parents = <<>>],
            s.nodes[node].clean_parents, 1, node)
    ELSE mark_dirty0(s, node)

\* ------------------------------------------------------------------ Engine
\* Mutant: an unrequested Pending is requeued like a requested one.
recalculate_requeues_unrequested(s, node) ==
    LET after(r0) ==
            LET r == [r0 EXCEPT
                        !.s.polls[Len(r0.s.polls)][3] =
                            IF r0.s.panic # "none" THEN "Panicked"
                            ELSE r0.poll,
                        !.s.polls[Len(r0.s.polls)][4] =
                            r0.s.pending_on_anchor_get] IN
            IF r.s.panic # "none" THEN [s |-> r.s, done |-> FALSE]
            ELSE CASE r.poll = "Pending" ->
                        IF r.s.pending_on_anchor_get
                        THEN [s |-> r.s, done |-> FALSE]
                        ELSE [s |-> r.s, done |-> FALSE]
                   [] r.poll = "Updated" ->
                        [s |-> [mark_dirty(r.s, node, TRUE) EXCEPT
                                  !.nodes[node].last_update = s.generation,
                                  !.nodes[node].last_ready = s.generation],
                         done |-> TRUE]
                   [] r.poll = "Unchanged" ->
                        [s |-> [r.s EXCEPT
                                  !.nodes[node].last_ready = s.generation],
                         done |-> TRUE]
    IN  after(poll_updated(
                [s EXCEPT !.pending_on_anchor_get = FALSE,
                          !.polls = Append(@, <<node, height(s, node),
                                                "Pending", FALSE, <<>>>>)],
                node))

\* Engine::recalculate: [s, done]; done = FALSE if still pending.
recalculate(s, node) ==
    LET after(r0) ==
            LET r == [r0 EXCEPT
                        !.s.polls[Len(r0.s.polls)][3] =
                            IF r0.s.panic # "none" THEN "Panicked"
                            ELSE r0.poll,
                        !.s.polls[Len(r0.s.polls)][4] =
                            r0.s.pending_on_anchor_get] IN
            IF r.s.panic # "none" THEN [s |-> r.s, done |-> FALSE]
            ELSE CASE r.poll = "Pending" ->
                        IF r.s.pending_on_anchor_get
                        THEN [s |-> r.s, done |-> FALSE]
                        ELSE [s |-> [r.s EXCEPT !.panic = "pending"],
                              done |-> FALSE]
                   [] r.poll = "Updated" ->
                        [s |-> [mark_dirty(r.s, node, TRUE) EXCEPT
                                  !.nodes[node].last_update = s.generation,
                                  !.nodes[node].last_ready = s.generation],
                         done |-> TRUE]
                   [] r.poll = "Unchanged" ->
                        [s |-> [r.s EXCEPT
                                  !.nodes[node].last_ready = s.generation],
                         done |-> TRUE]
    IN  after(poll_updated(
                [s EXCEPT !.pending_on_anchor_get = FALSE,
                          !.polls = Append(@, <<node, height(s, node),
                                                "Pending", FALSE, <<>>>>)],
                node))

\* Mutant: an iteration that recalculates the popped node whatever bucket
\* it came from.
stabilize0_body_any_height(p) ==
    LET after(r) == IF ~r.done THEN queue_recalc(r.s, p.node) ELSE r.s
    IN  after(recalculate(p.s, p.node))

\* One iteration of the while-let loop of Engine::stabilize0, given the
\* popped (height, node).
stabilize0_body(p) ==
    LET after(r) == IF ~r.done THEN queue_recalc(r.s, p.node) ELSE r.s
    IN  after(IF height(p.s, p.node) = p.height
              THEN recalculate(p.s, p.node)
              ELSE [s |-> p.s, done |-> FALSE])

RECURSIVE update_dirty_marks_loop(_, _, _)
update_dirty_marks_loop(s, marks, i) ==
    IF i > Len(marks) THEN s
    ELSE update_dirty_marks_loop(mark_dirty(s, marks[i], FALSE), marks, i + 1)

\* Mutant: the dirty marks are read but not taken.
update_dirty_marks_keeps_marks(s) ==
    update_dirty_marks_loop(s, s.dirty_marks, 1)

update_dirty_marks(s) ==
    update_dirty_marks_loop([s EXCEPT !.dirty_marks = <<>>], s.dirty_marks, 1)

\* Generation(NonZeroU64).  The 64-bit counter is kept as four 16-bit
\* limbs, least significant first, so that its wrap-around is computable.
Limb == 2^16

U64Zero == <<0, 0, 0, 0>>

U64Max == <<Limb - 1, Limb - 1, Limb - 1, Limb - 1>>

\* u64::wrapping_add(x, y) for a y of one limb
wrapping_add(x, y) ==
    LET a1 == x[1] + y
        a2 == x[2] + (a1 \div Limb)
        a3 == x[3] + (a2 \div Limb)
        a4 == x[4] + (a3 \div Limb)
    IN  <<a1 % Limb, a2 % Limb, a3 % Limb, a4 % Limb>>

\* NonZeroU64::new, with <<>> for Option::None
NonZeroU64_new(x) == IF x = U64Zero THEN <<>> ELSE x

\* Generation::new
Generation_new == NonZeroU64_new(<<1, 0, 0, 0>>)

\* Generation::increment on the limbs: unwrap() panics on None and leaves
\* self as it was.
Generation_increment(self) ==
    LET gen == wrapping_add(self, 1) IN
    IF NonZeroU64_new(gen) = <<>>
    THEN [self |-> self, panic |-> "unwrap"]
    ELSE [self |-> NonZeroU64_new(gen), panic |-> "none"]

\* The engine's generation is kept as a number; it stays far below 2^31.
U64(g) == <<g % Limb, g \div Limb, 0, 0>>

U64Value(x) == x[1] + Limb * x[2]

\* Mutant: a counter that runs backwards.
increment_decrements(g) == g - 1

\* Generation::increment
increment(g) == U64Value(Generation_increment(U64(g)).self)

\* Engine::stabilize up to the call of stabilize0.
stabilize_prologue(s) ==
    [update_dirty_marks(s) EXCEPT !.generation = increment(@)]

\* ------------------------------------------------------------- programs
\* The graph constructions the engine is run on.  Slot i holds the i-th
\* anchor the program mounts; dom gives the values the program may later
\* pass to Variable::set, obs the anchors it may mark observed, gets the
\* anchors it may pass to Engine::get and drops the anchors it may drop.
Var(x) == Core("var", <<>>, "none", <<>>, x)
Const(x) == Core("const", <<>>, "none", <<>>, x)
Map1(f, a) == Core("map", <<a>>, f, <<>>, NoVal)
Map2(f, a, b) == Core("map", <<a, b>>, f, <<>>, NoVal)
Cutoff(f, a) == Core("cutoff", <<a>>, f, <<>>, NoVal)
Then(a, c1, c2) == Core("then", <<a>>, "sel", <<c1, c2>>, NoVal)
Waits(a) == Core("waits", <<a>>, "none", <<>>, NoVal)

Pad(cs) == [n \in Nodes |-> IF n <= Len(cs) THEN cs[n] ELSE NoCore]

\* A chain of n maps over a Variable, in an engine of max height ChainHeight.
Chain(n) ==
    [name |-> "max_height_chain",
     cores |-> Pad(<<Var(0)>> \o [i \in 1..n |-> Map1("inc", i)]),
     dom |-> (1 :> {0, 1}),
     obs |-> {n + 1},
     gets |-> {n, n + 1},
     max_height |-> ChainHeight]

Programs == <<
    \* 1: linear chain (S1, shortened): v -> /2 -> +1 -> +1
    [name |-> "chain",
     cores |-> Pad(<<Var(0), Map1("half", 1), Map1("inc", 2), Map1("inc", 3)>>),
     dom |-> (1 :> {0, 1, 2}),
     obs |-> {4},
     gets |-> {2, 4},
     max_height |-> MaxHeight],
    \* 2: diamond (S4): l = v*2, r = v+1, s = l+r
    [name |-> "diamond",
     cores |-> Pad(<<Var(10), Map1("dbl", 1), Map1("inc", 1), Map2("add", 2, 3)>>),
     dom |-> (1 :> {10, 20}),
     obs |-> {4},
     gets |-> {1, 2, 3, 4},
     max_height |-> MaxHeight],
    \* 3: cutoff (S2): v.cutoff(|x| x.abs() >= 10).map(|x| x+1)
    [name |-> "cutoff",
     cores |-> Pad(<<Var(0), Cutoff("abs_ge10", 1), Map1("inc", 2)>>),
     dom |-> (1 :> {0, 5, 11}),
     obs |-> {3},
     gets |-> {2, 3},
     max_height |-> MaxHeight],
    \* 4: cutoff doc test of Anchor::cutoff (stateful closure)
    [name |-> "cutoff_doc",
     cores |-> Pad(<<Var(1), Cutoff("delta10", 1), Map1("inc", 2)>>),
     dom |-> (1 :> {1, 5, 11}),
     obs |-> {3},
     gets |-> {2, 3},
     max_height |-> MaxHeight],
    \* 5: then (S3): a = n+1, b = n+2, r = d.then(a | b)
    [name |-> "then",
     cores |-> Pad(<<Var(1), Var(1), Map1("inc", 2), Map1("plus2", 2),
                     Then(1, 3, 4)>>),
     dom |-> (1 :> {0, 1} @@ 2 :> {1, 2}),
     obs |-> {},
     gets |-> {3, 4, 5},
     max_height |-> MaxHeight],
    \* 6: S5: x = a.watch(); y = x.then(move |_| x.clone())
    [name |-> "s5",
     cores |-> Pad(<<Var(0), Then(1, 1, 1)>>),
     dom |-> (1 :> {0, 1}),
     obs |-> {2},
     gets |-> {1, 2},
     max_height |-> MaxHeight],
    \* 7: a then whose closure can return an anchor that depends on it:
    \*    r = d.then(c | m), m = r + 1
    [name |-> "cycle",
     cores |-> Pad(<<Var(1), Var(5), Then(1, 2, 4), Map1("inc", 3)>>),
     dom |-> (1 :> {0, 1} @@ 2 :> {}),
     obs |-> {4},
     gets |-> {2, 3, 4},
     max_height |-> MaxHeight],
    \* 8: two variables, shared input at two depths: p = x+y, q = p+x
    [name |-> "twovars",
     cores |-> Pad(<<Var(0), Var(0), Map2("add", 1, 2), Map2("add", 3, 1)>>),
     dom |-> (1 :> {0, 1} @@ 2 :> {0, 1}),
     obs |-> {},
     gets |-> {3, 4},
     max_height |-> MaxHeight],
    \* 9: a map over a then: b = a + 1, r = d.then(a | b), m = r + 1
    [name |-> "then_map",
     cores |-> Pad(<<Var(1), Var(2), Map1("inc", 2), Then(1, 2, 3),
                     Map1("inc", 4)>>),
     dom |-> (1 :> {0, 1} @@ 2 :> {}),
     obs |-> {5},
     gets |-> {3, 4, 5},
     max_height |-> MaxHeight],
    \* 10: graph/tests.rs: four insert_testing_guard() nodes, edges added
    \*     directly with ensure_height_increases + add_clean_parent
    [name |-> "graph_tests",
     cores |-> Pad(<<Const(123), Const(123), Const(123), Const(123)>>),
     dom |-> (1 :> {}),
     obs |-> {},
     gets |-> {},
     max_height |-> MaxHeight],
    \* 11: a then and one of its candidates feeding one map:
    \*     b = a + 1, r = d.then(a | b), m = a + r
    [name |-> "then_shared",
     cores |-> Pad(<<Var(1), Var(1), Map1("inc", 2), Then(1, 2, 3),
                     Map2("add", 2, 4)>>),
     dom |-> (1 :> {0, 1} @@ 2 :> {1, 2}),
     obs |-> {5},
     gets |-> {5},
     max_height |-> MaxHeight],
    \* 12: graph/tests.rs test_free_list: an empty graph
    [name |-> "free_list",
     cores |-> Pad(<<>>),
     dom |-> (1 :> {}),
     obs |-> {},
     gets |-> {},
     max_height |-> MaxHeight],
    \* 13..15: Engine::new_with_max_height(ChainHeight) and a chain of
    \*     ChainHeight - 1, ChainHeight and ChainHeight + 1 maps over a Var
    Chain(ChainHeight - 1),
    Chain(ChainHeight),
    Chain(ChainHeight + 1),
    \* 16: graph/tests.rs test_insert_pop: three insert_testing_guard() nodes
    [name |-> "queue_tests",
     cores |-> Pad(<<Const(123), Const(123), Const(123)>>),
     dom |-> (1 :> {}),
     obs |-> {},
     gets |-> {},
     max_height |-> MaxHeight],
    \* 17: observers at two depths of one chain: p = v + 1, q = p + 1,
    \*     with p and q both observable
    [name |-> "observers",
     cores |-> Pad(<<Var(0), Map1("inc", 1), Map1("inc", 2)>>),
     dom |-> (1 :> {0, 1}),
     obs |-> {2, 3},
     gets |-> {3},
     max_height |-> MaxHeight],
    \* 18: two insert_testing() nodes whose handles the test still holds
    [name |-> "free_tests",
     cores |-> Pad(<<Const(123), Const(123)>>),
     dom |-> (1 :> {}),
     obs |-> {},
     gets |-> {},
     max_height |-> MaxHeight],
    \* 19: an AnchorCore that stays Pending, over a map of a Variable
    [name |-> "waits",
     cores |-> Pad(<<Var(0), Map1("inc", 1), Waits(2)>>),
     dom |-> (1 :> {0, 1}),
     obs |-> {3},
     gets |-> {2, 3},
     max_height |-> MaxHeight],
    \* 20: a map over a Variable whose handles the program may drop
    [name |-> "drop_map",
     cores |-> Pad(<<Var(0), Map1("inc", 1)>>),
     dom |-> (1 :> {1}),
     obs |-> {1, 2},
     gets |-> {2},
     drops |-> {1, 2},
     max_height |-> MaxHeight],
    \* 21: a then that switches from a Variable to a map over it, with
    \*     handles the program may drop: a = x + 1, r = d.then(x | a)
    [name |-> "drop_then",
     cores |-> Pad(<<Var(1), Var(5), Map1("inc", 2), Then(1, 2, 3)>>),
     dom |-> (1 :> {0}),
     obs |-> {3, 4},
     gets |-> {},
     drops |-> {4},
     max_height |-> MaxHeight],
    \* 22: program 11 under Engine::new_with_max_height(3): m reaches
    \*     height 3 when r selects b
    [name |-> "then_shared_low",
     cores |-> Pad(<<Var(1), Var(1), Map1("inc", 2), Then(1, 2, 3),
                     Map2("add", 2, 4)>>),
     dom |-> (1 :> {0, 1} @@ 2 :> {1}),
     obs |-> {5},
     gets |-> {5},
     max_height |-> 3],
    \* 23: graph/tests.rs height_calculated_correctly: three
    \*     insert_testing_guard() nodes
    [name |-> "height_tests",
     cores |-> Pad(<<Const(123), Const(123), Const(123)>>),
     dom |-> (1 :> {}),
     obs |-> {},
     gets |-> {},
     max_height |-> MaxHeight]
>>

Prog == Programs[topo]

Live == {n \in Nodes : anchor[n].kind # "none"}

\* -------------------------------------------------------------- behaviour
NoResult == [anchor |-> None, value |-> NoVal]

NoCall == [child |-> None, parent |-> None, res |-> "none"]

\* Nodes a program has inserted into the arena before its first operation.
ArenaLen(p) ==
    Cardinality({n \in Nodes : Programs[p].cores[n].kind # "none"})

\* The test harness holds at most one key taken from a handle (with the
\* count of insertions its slot had seen), the order of the effective
\* enqueues not yet popped, and the result of the last recalc_pop_next.
NoPop == [node |-> None, height |-> 0]

\* What a program remembers of the engine from before a call it is about
\* to repeat ("repeat") or to undo ("observe").
NoSnap ==
    [kind |-> "none", arg |-> None, last_update |-> <<>>, output |-> <<>>,
     value |-> NoVal, count |-> <<>>, state |-> <<>>,
     quiet |-> FALSE, stabilized |-> FALSE]

NoTest ==
    [key |-> NoKey, key_epoch |-> 0, epoch |-> [n \in Nodes |-> 0],
     inserts |-> 0, queued |-> <<>>, before |-> <<>>,
     popped |-> NoPop, got |-> None, was |-> "none",
     fn |-> "none", arg |-> None, snap |-> NoSnap, freed |-> <<>>]

\* The harness record after a call of fn on node arg.
TestCall(fn, arg) ==
    [test EXCEPT !.fn = fn, !.arg = arg, !.before = <<>>, !.popped = NoPop,
                 !.got = None, !.was = "none", !.snap = NoSnap]

EnginePrograms == {1, 2, 3, 4, 5, 6, 7, 8, 9, 11, 13, 14, 15, 17, 19, 22}

Init ==
    /\ topo \in EnginePrograms \cup {12, 16, 18}
    /\ nodes = [n \in Nodes |-> NewNode]
    /\ anchor = Programs[topo].cores
    /\ recalc_queues = [h \in 0..(Programs[topo].max_height - 1) |-> None]
    /\ recalc_min_height = Programs[topo].max_height
    /\ recalc_max_height = 0
    /\ dirty_marks = <<>>
    /\ generation = 1
    /\ panic = "none"
    /\ pc = "idle"
    /\ op = "none"
    /\ target = None
    /\ result = NoResult
    /\ fcalls = <<>>
    /\ polls = <<>>
    /\ call = NoCall
    /\ free_head = None
    /\ arena_len = ArenaLen(topo)
    /\ test = NoTest

Commit(s) ==
    /\ nodes' = s.nodes
    /\ anchor' = s.anchor
    /\ recalc_queues' = s.recalc_queues
    /\ recalc_min_height' = s.recalc_min_height
    /\ recalc_max_height' = s.recalc_max_height
    /\ dirty_marks' = s.dirty_marks
    /\ generation' = s.generation
    /\ panic' = s.panic
    /\ fcalls' = s.fcalls
    /\ polls' = s.polls
    /\ free_head' = s.free_head
    /\ arena_len' = s.arena_len

Idle == pc = "idle" /\ panic = "none"

\* Every node's last_update and output, and the value the last get returned,
\* read before stabilize() or get(a) is called a second time in a row.
RepeatSnap(a) ==
    [NoSnap EXCEPT !.kind = "repeat", !.arg = a,
                   !.last_update = [n \in Nodes |-> nodes[n].last_update],
                   !.output = [n \in Nodes |-> output(St, n)],
                   !.value = result.value]

\* Every node's necessary_count and check_observed state, read before
\* mark_observed(a); quiet says that no dirty mark is outstanding and no
\* node is queued for recalculation at that moment.
ObserveSnap(a) ==
    [NoSnap EXCEPT !.kind = "observe", !.arg = a,
                   !.count = [n \in Nodes |-> nodes[n].necessary_count],
                   !.state = [n \in Nodes |-> check_observed_raw(St, n)],
                   !.quiet = /\ dirty_marks = <<>>
                             /\ \A n \in Live :
                                   recalc_state(St, n) # "Pending"]

Running == pc = "run" /\ panic = "none"

\* Variable::set
Variable_set(s, v, x) ==
    LET s1 == [s EXCEPT !.anchor[v].value = x]
        s2 == IF s.anchor[v].dirty_handle
              THEN [s1 EXCEPT !.dirty_marks = Append(@, v)]
              ELSE s1
    IN  [s2 EXCEPT !.anchor[v].value_changed = TRUE]

Set(v, x) ==
    /\ Idle
    /\ anchor[v].kind = "var"
    /\ Len(dirty_marks) < MaxDirtyMarks
    /\ Commit([Variable_set(St, v, x) EXCEPT !.fcalls = <<>>, !.polls = <<>>])
    /\ result' = NoResult
    /\ test' = TestCall("set", v)
    /\ UNCHANGED <<pc, op, target, topo, call>>

\* Engine::mark_observed
mark_observed(s, n) ==
    LET s1 == [s EXCEPT !.nodes[n].observed = TRUE]
    IN  IF recalc_state(s1, n) # "Ready" THEN queue_recalc(s1, n) ELSE s1

MarkObserved(n) ==
    /\ Idle
    /\ Commit([mark_observed(St, n) EXCEPT !.fcalls = <<>>, !.polls = <<>>])
    /\ test' = [TestCall("mark_observed", n) EXCEPT !.snap = ObserveSnap(n)]
    /\ UNCHANGED <<pc, op, target, result, topo, call>>

\* Mutant: the flag is cleared and the necessary children are kept.
mark_unobserved_keeps_children(s, n) ==
    [s EXCEPT !.nodes[n].observed = FALSE]

\* Engine::mark_unobserved
mark_unobserved(s, n) ==
    update_necessary_children([s EXCEPT !.nodes[n].observed = FALSE], n)

MarkUnobserved(n) ==
    /\ Idle
    /\ Commit([mark_unobserved(St, n) EXCEPT !.fcalls = <<>>, !.polls = <<>>])
    /\ test' = [TestCall("mark_unobserved", n) EXCEPT
                   !.snap = IF test.snap.kind = "observe" /\ test.snap.arg = n
                            THEN test.snap ELSE NoSnap]
    /\ UNCHANGED <<pc, op, target, result, topo, call>>

\* Engine::stabilize, up to the stabilize0 loop
Stabilize ==
    /\ Idle
    /\ generation < MaxGen
    /\ Commit([stabilize_prologue(St) EXCEPT !.fcalls = <<>>, !.polls = <<>>])
    /\ pc' = "run"
    /\ op' = "stabilize"
    /\ target' = None
    /\ test' = [TestCall("stabilize", None) EXCEPT
                   !.snap = IF test.fn = "mark_observed"
                            THEN [test.snap EXCEPT !.stabilized = TRUE]
                            ELSE IF test.fn \in {"stabilize", "get"}
                            THEN RepeatSnap(None)
                            ELSE NoSnap]
    /\ UNCHANGED <<result, topo, call>>

\* Engine::get, up to the first stabilize0 loop
Get(a) ==
    /\ Idle
    /\ generation < MaxGen
    /\ Commit([stabilize_prologue(St) EXCEPT !.fcalls = <<>>, !.polls = <<>>])
    /\ pc' = "run"
    /\ op' = "get"
    /\ target' = a
    /\ result' = NoResult
    /\ test' = [TestCall("get", a) EXCEPT
                   !.snap = IF test.fn = "get" /\ test.arg = a
                            THEN RepeatSnap(a) ELSE NoSnap]
    /\ UNCHANGED <<topo, call>>

\* stabilize0: one iteration of the loop
Step ==
    /\ Running
    /\ LET body(p) == p.node # None /\ Commit(stabilize0_body(p))
       IN  body(recalc_pop_next(St))
    /\ UNCHANGED <<pc, op, target, result, topo, call, test>>

\* Engine::stabilize returns when the queue is empty
StabilizeReturn ==
    /\ Running
    /\ op = "stabilize"
    /\ LET done(p) == p.node = None /\ Commit(p.s)
       IN  done(recalc_pop_next(St))
    /\ pc' = "idle"
    /\ UNCHANGED <<op, target, result, topo, call, test>>

\* Engine::get: the target is not Ready after the first stabilization
GetRequeue ==
    /\ Running
    /\ op = "get"
    /\ LET done(p) == /\ p.node = None
                      /\ recalc_state(p.s, target) # "Ready"
                      /\ Commit(queue_recalc(p.s, target))
       IN  done(recalc_pop_next(St))
    /\ op' = "get2"
    /\ UNCHANGED <<pc, target, result, topo, call, test>>

\* Engine::get: read the target's output and return it
GetReturn ==
    /\ Running
    /\ op \in {"get", "get2"}
    /\ LET done(p, v) ==
               /\ p.node = None
               /\ op = "get" => recalc_state(p.s, target) = "Ready"
               /\ IF v = PanicVal
                  THEN Commit([p.s EXCEPT !.panic = "get"])
                       /\ result' = NoResult
                  ELSE Commit(p.s)
                       /\ result' = [anchor |-> target, value |-> v]
           read(p) == done(p, output(p.s, target))
       IN  read(recalc_pop_next(St))
    /\ pc' = "idle"
    /\ UNCHANGED <<op, target, topo, call, test>>

Next ==
    \/ \E v \in DOMAIN Prog.dom : \E x \in Prog.dom[v] : Set(v, x)
    \/ \E n \in Prog.obs : MarkObserved(n)
    \/ \E n \in Prog.obs : MarkUnobserved(n)
    \/ Stabilize
    \/ \E a \in Prog.gets : Get(a)
    \/ Step
    \/ StabilizeReturn
    \/ GetRequeue
    \/ GetReturn

\* Programs 1..9 of the engine.
InitEngine == Init /\ topo \in 1..9

Spec == InitEngine /\ [][Next]_vars

\* Programs built from Variables and Maps only.
InitMaps == Init /\ topo \in {1, 2, 8}

SpecMaps == InitMaps /\ [][Next]_vars

\* Programs with a Cutoff.
InitCutoff == Init /\ topo \in {3, 4}

SpecCutoff == InitCutoff /\ [][Next]_vars

\* Programs with a Then.
InitThen == Init /\ topo \in {5, 6, 9}

SpecThen == InitThen /\ [][Next]_vars

\* The program whose Then can select its own dependent.
InitCycle == Init /\ topo \in {7}

SpecCycle == InitCycle /\ [][Next]_vars

\* The program whose map shares an input with the Then it reads.
InitShared == Init /\ topo \in {11}

SpecShared == InitShared /\ [][Next]_vars

\* The same program with and without room for the height its map reaches.
InitStale == Init /\ topo \in {11, 22}

SpecStale == InitStale /\ [][Next]_vars

\* Acyclic programs whose heights stay below the maximum height and whose
\* computations return Pending only after a request that returned Pending.
InitContract == Init /\ topo \in {5, 6, 9, 11, 13}

SpecContract == InitContract /\ [][Next]_vars

\* Chains of maps as high as the engine's maximum height, and higher.
InitChain == Init /\ topo \in {13, 14, 15}

SpecChain == InitChain /\ [][Next]_vars

\* Programs that observe: diamond, s5, then_map and observers.
InitObserve == Init /\ topo \in {2, 6, 9, 17}

SpecObserve == InitObserve /\ [][Next]_vars

\* The programs whose polls return Pending: for a child that is not Ready,
\* for a raised height (also past the maximum height), and for nothing.
InitPending == Init /\ topo \in {6, 13, 14, 15, 19}

SpecPending == InitPending /\ [][Next]_vars

\* ------------------------------------------------------------- graph tests
\* graph/tests.rs drives ensure_height_increases and add_clean_parent
\* directly on dummy nodes, always in the order "ensure, then add".
InitGraphOf(program) ==
    /\ topo = program
    /\ nodes = [n \in Nodes |-> NewNode]
    /\ anchor = Programs[program].cores
    /\ recalc_queues = [h \in 0..(Programs[topo].max_height - 1) |-> None]
    /\ recalc_min_height = Programs[topo].max_height
    /\ recalc_max_height = 0
    /\ dirty_marks = <<>>
    /\ generation = 1
    /\ panic = "none"
    /\ pc = "idle"
    /\ op = "none"
    /\ target = None
    /\ result = NoResult
    /\ fcalls = <<>>
    /\ polls = <<>>
    /\ call = NoCall
    /\ free_head = None
    /\ arena_len = ArenaLen(topo)
    /\ test = NoTest

InitGraph == InitGraphOf(10)

\* ensure_height_increases(child, parent).unwrap(); the tests repeat the
\* call for the same pair, or go on to add the edge.
EnsureHeight(c, p) ==
    /\ Idle
    /\ Len(nodes[c].clean_parents) < MaxCleanParents
    /\ \/ call.res \in {"none", "added"}
       \/ call.child = c /\ call.parent = p
    /\ LET after(r) ==
               /\ Commit(IF r.res = "err" THEN [r.s EXCEPT !.panic = "loop"]
                         ELSE r.s)
               /\ call' = [child |-> c, parent |-> p, res |-> r.res]
       IN  after(ensure_height_increases(St, c, p))
    /\ UNCHANGED <<pc, op, target, result, topo, test>>

\* child.add_clean_parent(parent), after the ensure call succeeded
AddCleanParent ==
    /\ Idle
    /\ call.res \in {"true", "false"}
    /\ Commit(add_clean_parent(St, call.child, call.parent))
    /\ call' = [call EXCEPT !.res = "added"]
    /\ UNCHANGED <<pc, op, target, result, topo, test>>

\* The list NodeGuard::drain_clean_parents leaves behind.
drain_clean_parents(s, node) == [s EXCEPT !.nodes[node].clean_parents = <<>>]

\* let _ = c.drain_clean_parents(), after an edge was added; the tests drain
\* a graph in which every raised node is still some node's clean parent.
DrainCleanParents(c) ==
    /\ Idle
    /\ call.res \in {"added"}
    /\ nodes[c].clean_parents # <<>>
    /\ \A n \in Live : nodes[n].height < ChainHeight
    /\ \A n \in Live : nodes[n].height > 0 =>
          \E m \in Live : \E i \in 1..Len(nodes[m].clean_parents) :
              nodes[m].clean_parents[i] = n
    /\ Commit(drain_clean_parents(St, c))
    /\ call' = [call EXCEPT !.res = "none"]
    /\ UNCHANGED <<pc, op, target, result, topo, test>>

NextGraph ==
    \/ \E c \in Live : \E p \in Live : EnsureHeight(c, p)
    \/ AddCleanParent

SpecGraph == InitGraph /\ [][NextGraph]_vars

\* height_calculated_correctly also drains clean parents between the calls.
InitHeights == InitGraphOf(23)

NextHeights ==
    \/ \E c \in Live : \E p \in Live : EnsureHeight(c, p)
    \/ AddCleanParent
    \/ \E c \in Live : DrainCleanParents(c)

SpecHeights == InitHeights /\ [][NextHeights]_vars

\* ------------------------------------------------------- recalc queue tests
\* graph/tests.rs test_insert_pop and test_insert_above_max_height drive
\* set_min_height, queue_recalc and recalc_pop_next directly on dummy nodes.
Without(sq, n) == SelectSeq(sq, LAMBDA e : e.node # n)

\* set_min_height(n, h).unwrap()
SetMinHeight(n, h) ==
    /\ Idle
    /\ nodes[n].height < h
    /\ LET after(r) ==
               Commit(IF r.ok THEN r.s ELSE [r.s EXCEPT !.panic = "loop"])
       IN  after(set_min_height(St, n, h))
    /\ test' = TestCall("set_min_height", n)
    /\ UNCHANGED <<pc, op, target, result, topo, call>>

\* guard.queue_recalc(n)
QueueRecalc(n) ==
    /\ Idle
    /\ Commit(queue_recalc(St, n))
    /\ test' = [TestCall("queue_recalc", n) EXCEPT
                   !.was = nodes[n].recalc_state,
                   !.queued = IF nodes[n].recalc_state = "Pending"
                                 \/ nodes[n].height >= recalc_queues_len(St)
                              THEN @
                              ELSE Append(@, [node |-> n,
                                              height |-> nodes[n].height])]
    /\ UNCHANGED <<pc, op, target, result, topo, call>>

\* guard.recalc_pop_next()
PopNext ==
    /\ Idle
    /\ LET after(p) ==
               /\ Commit(p.s)
               /\ test' = [TestCall("recalc_pop_next", None) EXCEPT
                              !.before = test.queued,
                              !.popped = [node |-> p.node,
                                          height |-> p.height],
                              !.queued = Without(@, p.node)]
       IN  after(recalc_pop_next(St))
    /\ UNCHANGED <<pc, op, target, result, topo, call>>

QueueHeights == {1, 3, MaxHeight}

NextQueue ==
    \/ \E n \in Live : \E h \in QueueHeights : SetMinHeight(n, h)
    \/ \E n \in Live : QueueRecalc(n)
    \/ PopNext

InitQueue == Init /\ topo = 16

SpecQueue == InitQueue /\ [][NextQueue]_vars

\* --------------------------------------------------------- free list tests
\* graph/tests.rs test_free_list: handles are inserted, cloned and dropped,
\* keys are taken from live handles and looked up later.
InitArena == Init /\ topo = 12

\* graph.insert_testing()
Insert ==
    /\ Idle
    /\ test.inserts < MaxInserts
    /\ free_head # None \/ arena_len < MaxNodes
    /\ LET after(r) ==
               /\ Commit(r.s)
               /\ test' = [TestCall("insert", r.ptr) EXCEPT
                              !.inserts = @ + 1,
                              !.epoch[r.ptr] = @ + 1,
                              !.freed = SelectSeq(@, LAMBDA n : n # r.ptr)]
       IN  after(Graph_insert(St, Const(123)))
    /\ UNCHANGED <<pc, op, target, result, topo, call>>

\* handle.clone()
CloneHandle(n) ==
    /\ Idle
    /\ nodes[n].handle_count < MaxHandles
    /\ Commit(AnchorHandle_clone(St, n))
    /\ test' = TestCall("clone", n)
    /\ UNCHANGED <<pc, op, target, result, topo, call>>

\* std::mem::drop(handle)
DropHandle(n) ==
    /\ Idle
    /\ Commit(AnchorHandle_drop(St, n))
    /\ test' = [TestCall("drop", n) EXCEPT
                   !.queued = IF nodes[n].handle_count = 1
                              THEN Without(@, n) ELSE @,
                   !.freed = IF nodes[n].handle_count = 1
                             THEN Append(@, n) ELSE @]
    /\ UNCHANGED <<pc, op, target, result, topo, call>>

\* let k = handle.token()
TakeKey(n) ==
    /\ Idle
    /\ test' = [TestCall("token", n) EXCEPT
                   !.key = key(n), !.key_epoch = test.epoch[n]]
    /\ UNCHANGED <<nodes, anchor, recalc_queues, recalc_min_height,
                   recalc_max_height, dirty_marks, generation, panic, pc, op,
                   target, result, fcalls, polls, topo, call, free_head,
                   arena_len>>

\* graph.get(k)
Lookup ==
    /\ Idle
    /\ test.key # NoKey
    /\ test' = [TestCall("get", test.key.ptr) EXCEPT
                   !.got = GraphGuard_get(test.key)]
    /\ UNCHANGED <<nodes, anchor, recalc_queues, recalc_min_height,
                   recalc_max_height, dirty_marks, generation, panic, pc, op,
                   target, result, fcalls, polls, topo, call, free_head,
                   arena_len>>

NextArena ==
    \/ Insert
    \/ \E n \in Live : CloneHandle(n)
    \/ \E n \in Live : DropHandle(n)
    \/ \E n \in Live : TakeKey(n)
    \/ Lookup
    \/ \E n \in Live : QueueRecalc(n)
    \/ PopNext

SpecArena == InitArena /\ [][NextArena]_vars

\* Handles of queued nodes are dropped and their nodes reused: two
\* inserted nodes, then any interleaving of queue_recalc, recalc_pop_next,
\* drop and insert.
NextFree ==
    \/ (free_head # None \/ arena_len < MaxFreeNodes) /\ Insert
    \/ \E n \in Live : DropHandle(n)
    \/ \E n \in Live : QueueRecalc(n)
    \/ PopNext

InitFree == Init /\ topo = 18

SpecFree == InitFree /\ [][NextFree]_vars

\* The engine with handle drops: the program drops the anchors it holds
\* and mounts new constants, between the engine operations.
Holders(n) ==
    LET RECURSIVE count(_, _)
        count(hs, i) == IF i > Len(hs) THEN 0
                        ELSE (IF hs[i] = n THEN 1 ELSE 0) + count(hs, i + 1)
        RECURSIVE sum(_)
        sum(m) == IF m = 0 THEN 0 ELSE count(held(anchor[m]), 1) + sum(m - 1)
    IN  sum(MaxNodes)

\* The program still has a handle of its own to node n.
UserHolds(n) == n \in Live /\ nodes[n].handle_count > Holders(n)

InitDrop ==
    /\ topo \in {20, 21}
    /\ anchor = Programs[topo].cores
    /\ nodes = [n \in Nodes |->
                  [NewNode EXCEPT !.handle_count = 1 + Holders(n)]]
    /\ recalc_queues = [h \in 0..(Programs[topo].max_height - 1) |-> None]
    /\ recalc_min_height = Programs[topo].max_height
    /\ recalc_max_height = 0
    /\ dirty_marks = <<>>
    /\ generation = 1
    /\ panic = "none"
    /\ pc = "idle"
    /\ op = "none"
    /\ target = None
    /\ result = NoResult
    /\ fcalls = <<>>
    /\ polls = <<>>
    /\ call = NoCall
    /\ free_head = None
    /\ arena_len = ArenaLen(topo)
    /\ test = NoTest

NextDrop ==
    \/ \E v \in DOMAIN Prog.dom : \E x \in Prog.dom[v] :
          UserHolds(v) /\ Set(v, x)
    \/ \E n \in Prog.obs : UserHolds(n) /\ MarkObserved(n)
    \/ \E n \in Prog.obs : UserHolds(n) /\ MarkUnobserved(n)
    \/ Stabilize
    \/ \E a \in Prog.gets : UserHolds(a) /\ Get(a)
    \/ Step
    \/ StabilizeReturn
    \/ GetRequeue
    \/ GetReturn
    \/ \E n \in Prog.drops : UserHolds(n) /\ DropHandle(n)
    \/ free_head # None /\ test.inserts < MaxMounts /\ Insert

SpecDrop == InitDrop /\ [][NextDrop]_vars

\* -------------------------------------------------- Generation on its own
\* The counter values the increments start from: around 1, around each
\* limb boundary and around the largest u64.
GenerationStarts ==
    {x \in {0, 1, 2, Limb - 3, Limb - 2, Limb - 1}
            \X {0, Limb - 1} \X {0, Limb - 1} \X {0, Limb - 1} :
        NonZeroU64_new(x) # <<>>}

InitGeneration ==
    /\ topo = 10
    /\ nodes = [n \in Nodes |-> NewNode]
    /\ anchor = Programs[10].cores
    /\ recalc_queues = [h \in 0..(Programs[topo].max_height - 1) |-> None]
    /\ recalc_min_height = Programs[topo].max_height
    /\ recalc_max_height = 0
    /\ dirty_marks = <<>>
    /\ generation \in GenerationStarts
    /\ panic = "none"
    /\ pc = "idle"
    /\ op = "none"
    /\ target = None
    /\ result = NoResult
    /\ fcalls = <<>>
    /\ polls = <<>>
    /\ call = NoCall
    /\ free_head = None
    /\ arena_len = ArenaLen(topo)
    /\ test = NoTest

\* self.generation.increment(); test.arg counts the calls made.
Increment ==
    /\ Idle
    /\ test.arg < MaxIncrements
    /\ LET after(r) == /\ generation' = r.self
                       /\ panic' = r.panic
       IN  after(Generation_increment(generation))
    /\ test' = [test EXCEPT !.fn = "increment", !.arg = @ + 1]
    /\ UNCHANGED <<nodes, anchor, recalc_queues, recalc_min_height,
                   recalc_max_height, dirty_marks, pc, op, target, result,
                   fcalls, polls, topo, call, free_head, arena_len>>

NextGeneration == Increment

SpecGeneration == InitGeneration /\ [][NextGeneration]_vars

\* ------------------------------------------------------------ properties
\* The value of anchor n computed from scratch from the variables' current
\* values (PanicVal if n lies on a dependency cycle).
RECURSIVE Eval(_, _)
Eval(n, fuel) ==
    IF fuel = 0 THEN PanicVal
    ELSE LET a == anchor[n] IN
         CASE a.kind \in {"var", "const"} -> a.value
           [] a.kind = "map" ->
                LET args == [i \in 1..Len(a.anchors) |->
                                Eval(a.anchors[i], fuel - 1)]
                IN  IF HasPanicVal(args) THEN PanicVal ELSE MapFn(a.f, args)
           [] a.kind = "cutoff" -> Eval(a.anchors[1], fuel - 1)
           [] a.kind = "then" ->
                LET x == Eval(a.anchors[1], fuel - 1)
                IN  IF x = PanicVal THEN PanicVal
                    ELSE Eval(ThenFn(a.cands, x), fuel - 1)
           [] OTHER -> PanicVal

FromScratch(n) == Eval(n, MaxNodes + 1)

Returned == result.anchor # None

\* C1: in programs built from Variables and Maps, the value Engine::get
\* returns for an anchor is the value obtained by evaluating the anchor's
\* functions from scratch on the variables' current values, and no such
\* program panics.
C1_GetIsFresh ==
    /\ panic = "none"
    /\ Returned => result.value = FromScratch(result.anchor)

\* C1 witness: the diamond root read as 61 after v.set(20) following an
\* earlier stabilization.
C1_Witness ==
    /\ topo = 2
    /\ result = [anchor |-> 4, value |-> 61]
    /\ generation >= 3

\* C2: for m = r.map(g) with r a Then node (program 9: m = r + 1,
\* r = d.then(a | b)), every value Engine::get returns for m is g applied
\* to the current value of the inner anchor r's function currently selects.
C2_MapOverThenFresh ==
    (topo = 9 /\ result.anchor = 5) => result.value = FromScratch(5)

\* C3: every value Engine::get returns for a Then node is the current
\* value of the anchor its function selects for the current inputs.
C3_ThenGetIsFresh ==
    (Returned /\ anchor[result.anchor].kind = "then")
        => result.value = FromScratch(result.anchor)

\* C3 witness (S3): after d.set(false) a second get(&r) returns 3.
C3_Witness ==
    /\ topo = 5
    /\ anchor[1].value = 0
    /\ anchor[2].value = 1
    /\ result = [anchor |-> 5, value |-> 3]
    /\ generation >= 3

\* Some closure invocation of node n in the current operation matches.
Invoked(n, first, out) ==
    \E i \in 1..Len(fcalls) : fcalls[i] = FCall(n, first, out)

Reinvoked(n) ==
    \E i \in 1..Len(fcalls) : fcalls[i].n = n /\ ~fcalls[i].first

\* C4: in c = v.cutoff(|x| x.abs() >= 10).map(|x| x + 1), an operation in
\* which the predicate returns false for a changed input (not the first
\* calculation) does not recompute the downstream map.
C4_FalseBlocksMap ==
    (topo = 3 /\ Invoked(2, FALSE, 0)) => ~Reinvoked(3)

\* C5 as stated: once a Cutoff's predicate has returned true, an operation
\* in which it returns false does not re-invoke the downstream map.
C5_FalseBlocksAfterTrue ==
    (topo \in {3, 4} /\ nodes[2].last_update # None /\ Invoked(2, FALSE, 0))
        => ~Reinvoked(3)

\* A step of an operation in which the predicate returned false re-invokes
\* the downstream map only if the map had not been recomputed since the
\* predicate last returned true.
C5_Step ==
    (/\ topo \in {3, 4}
     /\ nodes[2].last_update # None
     /\ Invoked(2, FALSE, 0)
     /\ ~Reinvoked(3)
     /\ Reinvoked(3)')
        => nodes[3].last_ready < nodes[2].last_update

\* A get of the downstream map in which the predicate returned true
\* returns the map's function applied to the new input.
C5_Passes ==
    (/\ topo \in {3, 4}
     /\ result.anchor = 3
     /\ \E first \in BOOLEAN : Invoked(2, first, 1))
        => result.value = FromScratch(3)

\* C5, amended: once a Cutoff's predicate has returned true and the
\* downstream map has been recomputed since, a later input change for
\* which the predicate returns false does not re-invoke the map, and a
\* change for which it returns true is propagated to the map.
C5_FalseBlocksUpToDateMap == [][C5_Step]_vars /\ []C5_Passes

\* C5 witness (doc test): get = 2, then v.set(5) is blocked and get = 2.
C5_Witness ==
    /\ topo = 4
    /\ anchor[1].value = 5
    /\ nodes[2].last_update # None
    /\ Invoked(2, FALSE, 0)
    /\ ~Reinvoked(3)
    /\ result = [anchor |-> 3, value |-> 2]

\* How often node n's function was invoked in the current operation.
Count(n) == Cardinality({i \in 1..Len(fcalls) : fcalls[i].n = n})

\* C6: in the diamond with observed root s = l + r (l = v * 2, r = v + 1),
\* no function runs twice in one stabilization; s's function runs after
\* those of l and r and on their new outputs; a completed stabilization
\* that polled the changed variable ran l and r exactly once each, and s
\* exactly once if l or r changed; and get(&s) is the from-scratch value.
C6_DiamondOnce ==
    (topo = 2 /\ nodes[4].observed) =>
        /\ \A n \in {2, 3, 4} : Count(n) <= 1
        /\ \A k \in 1..Len(fcalls) : fcalls[k].n = 4 =>
              /\ fcalls[k].out = FromScratch(4)
              /\ \A j \in 1..Len(fcalls) : fcalls[j].n \in {2, 3} => j < k
        /\ (pc = "idle" /\ polls # <<>> /\ nodes[1].last_update = generation)
              => /\ Count(2) = 1
                 /\ Count(3) = 1
                 /\ (nodes[2].last_update = generation
                       \/ nodes[3].last_update = generation) => Count(4) = 1
        /\ result.anchor = 4 => result.value = FromScratch(4)

\* C6 witness: after v.set(20) on the stabilized, observed diamond, l, r
\* and s ran once each, in that order or with r first, and get(&s) = 61.
C6_Witness ==
    /\ topo = 2
    /\ nodes[4].observed
    /\ generation >= 3
    /\ Len(fcalls) = 3
    /\ fcalls[3] = FCall(4, FALSE, 61)
    /\ result = [anchor |-> 4, value |-> 61]

\* C7: while the engine has not panicked, every node recorded in the
\* clean_parents of a node C is strictly higher than C.
C7_CleanParentsHigher ==
    panic = "none" =>
        \A c \in Nodes : \A i \in 1..Len(nodes[c].clean_parents) :
            nodes[nodes[c].clean_parents[i]].height > nodes[c].height

\* C7 witness: in m = r.map(..), r = d.then(a | b), the Then node r was
\* raised to height 2 when it selected b, and the raise reached its clean
\* parent m.
C7_Witness ==
    /\ topo = 9
    /\ panic = "none"
    /\ nodes[3].clean_parents = <<4>>
    /\ nodes[4].clean_parents = <<5>>
    /\ nodes[4].height = 2
    /\ nodes[5].height = 3

\* C8: in r = d.then(c | m), m = r.map(..), a request that closes the
\* dependency cycle between r and m fails with the cycle error, so the
\* only panic this program can end in is the cycle error, and Engine::get
\* returns no value for a node that lies on a dependency cycle.
C8_CycleRequestPanics ==
    topo = 7 =>
        /\ panic \in {"none", "loop"}
        /\ Returned => FromScratch(result.anchor) # PanicVal

\* The nodes reached from the set S by following clean_parents links.
CleanParentsOf(S) ==
    {p \in Nodes : \E c \in S : \E i \in 1..Len(nodes[c].clean_parents) :
        nodes[c].clean_parents[i] = p}

RECURSIVE CleanClosure(_, _)
CleanClosure(S, k) ==
    IF k = 0 THEN S ELSE CleanClosure(S \cup CleanParentsOf(S), k - 1)

ReachableFrom(n) == CleanClosure(CleanParentsOf({n}), MaxNodes)

\* C9: ensure_height_increases(child, parent) returns Err only if child is
\* parent or child is reachable from parent along clean_parents links.
C9_NoFalseCycleError ==
    call.res = "err" =>
        \/ call.child = call.parent
        \/ call.child \in ReachableFrom(call.parent)

\* C9 witness: the call that closes a diamond (b under c and d, both under
\* e) returned Ok.
C9_Witness ==
    \E b, c, d, e \in Live :
        /\ Cardinality({b, c, d, e}) = 4
        /\ nodes[b].clean_parents = <<c, d>>
        /\ nodes[c].clean_parents = <<e>>
        /\ call.child = d
        /\ call.parent = e
        /\ call.res \in {"true", "false"}

\* C10 as stated (S5): a completed engine.get(&y) for y = x.then(|_| x)
\* has panicked with the cycle error.
C10_S5Panics ==
    (topo = 6 /\ pc = "idle" /\ op \in {"get", "get2"} /\ target = 2)
        => panic = "loop"

\* C10, amended: in S5 nothing panics and engine.get(&y) returns the
\* current value of the variable behind x.
C10_S5ReturnsVariable ==
    topo = 6 =>
        /\ panic = "none"
        /\ result.anchor = 2 => result.value = anchor[1].value

\* C10 witness: the first engine.get(&y) of S5 returned 0.
C10_Witness ==
    /\ topo = 6
    /\ generation = 2
    /\ result = [anchor |-> 2, value |-> 0]

\* C11: a key taken from a handle before the node's last handle was
\* dropped does not resolve once the node's storage has been reused by a
\* later insert: GraphGuard::get on the stale key returns None.
C11_StaleKeyRejected ==
    (/\ test.fn = "get"
     /\ test.key_epoch < test.epoch[test.key.ptr]
     /\ test.key.ptr \in Live)
        => test.got = None

\* Engine::stabilize has just returned without a panic.
StabilizeReturns == pc = "run" /\ pc' = "idle" /\ op = "stabilize"

ObservedOrNecessary(n) == check_observed_raw(St, n) # "Unnecessary"

\* C12 as stated: after stabilize() returns, every Observed or Necessary
\* node is Ready and its last_ready is the engine's current generation.
C12_Post ==
    \A n \in Live : ObservedOrNecessary(n) =>
        /\ nodes[n].recalc_state = "Ready"
        /\ nodes[n].last_ready = generation

C12_ReadyAtGeneration == [][StabilizeReturns => C12_Post']_vars

\* C12 amended: after stabilize() returns, every Observed or Necessary node
\* is Ready and has a last_ready not later than the engine's generation,
\* and every node polled in this stabilization has last_ready equal to it.
C12_ReadyPost ==
    /\ \A n \in Live : ObservedOrNecessary(n) =>
          /\ nodes[n].recalc_state = "Ready"
          /\ nodes[n].last_ready # None
          /\ nodes[n].last_ready <= generation
    /\ \A i \in 1..Len(polls) : nodes[polls[i][1]].last_ready = generation

C12_ReadyAndPolled == [][StabilizeReturns => C12_ReadyPost']_vars

\* C12 witness: in the observed diamond, after v.set(20) and a stabilize()
\* that polled all four nodes, a second stabilize() has returned having
\* polled nothing: the nodes are Ready with last_ready one generation old.
C12_Witness ==
    /\ topo = 2
    /\ pc = "idle" /\ op = "stabilize" /\ panic = "none"
    /\ nodes[4].observed
    /\ nodes[1].necessary_count > 0
    /\ anchor[1].val = 20
    /\ polls = <<>>
    /\ \A n \in Live : /\ nodes[n].recalc_state = "Ready"
                       /\ nodes[n].last_ready = generation - 1

\* Engine::get or Engine::stabilize has just returned without a panic.
OperationReturns == pc = "run" /\ pc' = "idle" /\ panic' = "none"

\* C13: after Engine::get of any anchor, or after stabilize, every node
\* marked observed is Ready and its output is the value obtained by
\* evaluating its functions from scratch on the variables' current values.
C13_Post ==
    \A n \in Live : nodes[n].observed =>
        /\ nodes[n].recalc_state = "Ready"
        /\ output(St, n) = FromScratch(n)

C13_ObservedUpToDate == [][OperationReturns => C13_Post']_vars

\* C14: stabilize() called again, or get(a) called again on the same anchor,
\* with no set, mark_observed, mark_unobserved or handle drop in between,
\* changes no node's output and no node's last_update, and the repeated get
\* returns the value the first one returned.
C14_Idempotent ==
    test.snap.kind = "repeat" =>
        /\ panic = "none"
        /\ \A n \in Live :
              /\ nodes[n].last_update = test.snap.last_update[n]
              /\ output(St, n) = test.snap.output[n]
        /\ (pc = "idle" /\ test.fn = "get") => result.value = test.snap.value

C14_Witness ==
    /\ test.snap.kind = "repeat"
    /\ test.fn = "get"
    /\ pc = "idle"
    /\ panic = "none"
    /\ result.value = test.snap.value
    /\ result.value # NoVal
    /\ generation >= 2
    /\ \E n \in Live : nodes[n].last_update # None


\* mark_unobserved(a) has just returned, and it undoes a mark_observed(a)
\* with at most one stabilize() and nothing else in between.
ObserveUndone ==
    /\ test.fn = "mark_unobserved"
    /\ test.snap.kind = "observe"

NecessityRestored ==
    \A n \in Live :
        /\ nodes[n].necessary_count = test.snap.count[n]
        /\ check_observed_raw(St, n) = test.snap.state[n]

\* C15: mark_observed(a) followed by mark_unobserved(a), with or without a
\* stabilize in between and with no set, leaves every node's
\* Observed/Necessary/Unnecessary state and necessary_count as they were
\* before the mark_observed.
C15_Restores == ObserveUndone => NecessityRestored

\* C15, for an anchor that was not Observed before the mark_observed and,
\* when a stabilize comes in between, a mark_observed called while no dirty
\* mark is outstanding and no node is queued for recalculation.
C15_RestoresUnobserved ==
    (/\ ObserveUndone
     /\ test.snap.state[test.arg] # "Observed"
     /\ test.snap.stabilized => test.snap.quiet)
        => NecessityRestored

C15_Witness ==
    /\ ObserveUndone
    /\ test.snap.state[test.arg] = "Unnecessary"
    /\ test.snap.stabilized
    /\ test.snap.quiet
    /\ nodes[test.arg].last_ready = generation
    /\ \E n \in Live : n # test.arg /\ nodes[n].observed
    /\ NecessityRestored


\* The anchors node p asked for with necessary = true when it was last
\* polled: the inputs of a Map or Cutoff, the input and the current
\* f_anchor of a Then.
Requested(p) ==
    LET a == anchor[p]
    IN  IF nodes[p].last_ready = None THEN {}
        ELSE {a.anchors[i] : i \in 1..Len(a.anchors)}
             \cup (IF a.f_anchor # None THEN {a.f_anchor} ELSE {})

RECURSIVE RequestedFrom(_, _)
RequestedFrom(S, k) ==
    IF k = 0 THEN S
    ELSE RequestedFrom(S \cup UNION {Requested(p) : p \in S}, k - 1)

\* The nodes on a live dependency path from some Observed node.
OnLivePath == RequestedFrom({n \in Live : nodes[n].observed}, MaxNodes)

C16_Post ==
    \A n \in Live : ~nodes[n].observed =>
        (check_observed_raw(St, n) = "Necessary" <=> n \in OnLivePath)

\* C16: after stabilize, a non-observed node is Necessary exactly when it
\* lies on a currently-live dependency path from some Observed node.
C16_NecessaryIffOnPath == [][StabilizeReturns => C16_Post']_vars

C16_OnlyIfPost ==
    \A n \in Live : ~nodes[n].observed =>
        (check_observed_raw(St, n) = "Necessary" => n \in OnLivePath)

\* C16, one direction: after stabilize, a non-observed node is Necessary
\* only when it lies on a live dependency path from some Observed node.
C16_NecessaryOnlyOnPath == [][StabilizeReturns => C16_OnlyIfPost']_vars


C16_Witness ==
    /\ pc = "idle"
    /\ op = "stabilize"
    /\ panic = "none"
    /\ polls # <<>>
    /\ C16_OnlyIfPost
    /\ \E n \in Live : /\ ~nodes[n].observed
                       /\ check_observed_raw(St, n) = "Necessary"
                       /\ n \in OnLivePath
    /\ \E n \in Live : /\ nodes[n].last_ready # None
                       /\ check_observed_raw(St, n) = "Unnecessary"
                       /\ n \notin OnLivePath


\* In a chain program: the number of maps, the top of the chain, and
\* whether the last call was a get of the top, running or returned.
ChainMaps == arena_len - 1

ChainTop == arena_len

GetOfTop == test.fn = "get" /\ test.arg = ChainTop

C17_Resolves ==
    (GetOfTop /\ ChainMaps = recalc_queues_len(St) - 1) =>
        /\ panic = "none"
        /\ pc = "idle" => result = [anchor |-> ChainTop,
                                    value |-> anchor[1].value + ChainMaps]

C17_NeverReturns ==
    (GetOfTop /\ ChainMaps >= recalc_queues_len(St)) =>
        /\ pc # "idle"
        /\ panic \in {"none", "height"}

\* Every iteration of the stabilize0 loop that does not panic polls a node,
\* so the loop cannot run forever without returning or panicking.
C17_Progress ==
    (pc = "run" /\ pc' = "run" /\ op' = op /\ panic' = "none")
        => Len(polls') = Len(polls) + 1

\* C17: with maximum height M, get on the top of a chain of N maps over a
\* Variable returns the value of the variable plus N when N = M - 1; when
\* N >= M it never returns and the only way it stops is the panic of the
\* height check.
C17_ChainHeight ==
    [][(C17_Resolves /\ C17_NeverReturns)' /\ C17_Progress]_vars

C17_Witness ==
    /\ GetOfTop
    /\ ChainMaps = recalc_queues_len(St) - 1
    /\ pc = "idle"
    /\ result.value = 1 + ChainMaps
    /\ height(St, ChainTop) = recalc_queues_len(St) - 1

C17_WitnessPanic ==
    /\ GetOfTop
    /\ ChainMaps = recalc_queues_len(St)
    /\ panic = "height"


\* The step is a call of queue_recalc on a node that is not Pending and
\* whose height is at or above recalc_queues.len().
QueueAboveMax ==
    /\ test'.fn = "queue_recalc"
    /\ test' # test
    /\ panic = "none"
    /\ nodes[test'.arg].recalc_state # "Pending"
    /\ nodes[test'.arg].height >= recalc_queues_len(St)

\* C18: queue_recalc on a non-Pending node whose height is >= the configured
\* maximum height panics, and writes nothing to the recalc queues: the
\* buckets, their number, the links and the min/max heights are unchanged.
C18_PanicsAboveMax ==
    [][QueueAboveMax =>
          /\ panic' = "height"
          /\ recalc_queues' = recalc_queues
          /\ recalc_min_height' = recalc_min_height
          /\ recalc_max_height' = recalc_max_height
          /\ \A n \in Live : /\ nodes'[n].next = nodes[n].next
                             /\ nodes'[n].prev = nodes[n].prev]_vars

C18_Witness ==
    /\ test.fn = "queue_recalc"
    /\ test.was # "Pending"
    /\ nodes[test.arg].height >= recalc_queues_len(St)
    /\ panic = "height"
    /\ \E h \in DOMAIN recalc_queues : recalc_queues[h] # None
    /\ Len(test.queued) = 2


\* recalc_pop_next has just returned; test.before lists the nodes that were
\* queued when it was called, oldest first, each with the height it had
\* when it was enqueued.
Popped == test.fn = "recalc_pop_next"

PoppedIndex(i) == test.before[i].node = test.popped.node

\* C19: recalc_pop_next returns a queued node of minimum height among all
\* currently queued nodes, the most recently enqueued among those of equal
\* height, and None exactly when no node is queued.
C19_PopsMinimumHeight ==
    Popped =>
        /\ test.popped.node = None <=> test.before = <<>>
        /\ test.popped.node # None =>
              \E i \in 1..Len(test.before) :
                  /\ PoppedIndex(i)
                  /\ \A j \in 1..Len(test.before) :
                        /\ nodes[test.before[j].node].height
                              >= nodes[test.popped.node].height
                        /\ j > i => nodes[test.before[j].node].height
                                       # nodes[test.popped.node].height

\* C19 with the height a node had when it was enqueued, which is the bucket
\* it is linked in and the height recalc_pop_next returns with it.
C19_PopsMinimumBucket ==
    Popped =>
        /\ test.popped.node = None <=> test.before = <<>>
        /\ test.popped.node # None =>
              \E i \in 1..Len(test.before) :
                  /\ PoppedIndex(i)
                  /\ test.popped.height = test.before[i].height
                  /\ \A j \in 1..Len(test.before) :
                        /\ test.before[j].height >= test.popped.height
                        /\ j > i => test.before[j].height
                                       # test.popped.height

C19_Witness ==
    /\ Popped
    /\ Len(test.before) = 3
    /\ test.popped.node = test.before[3].node
    /\ test.before[2].height = test.popped.height
    /\ test.before[1].height > test.popped.height
    /\ nodes[test.popped.node].height > test.popped.height
    /\ C19_PopsMinimumBucket


\* The nodes linked in one bucket, head first, following ptrs.next.
RECURSIVE BucketList(_, _)
BucketList(ptr, fuel) ==
    IF ptr = None \/ fuel = 0 THEN <<>>
    ELSE <<ptr>> \o BucketList(nodes[ptr].next, fuel - 1)

Buckets ==
    [h \in DOMAIN recalc_queues |->
        BucketList(recalc_queues[h], MaxNodes + 1)]

\* The places (bucket, position) at which node n is linked in buckets b.
LinkedAt(b, n) ==
    UNION {{<<h, i>> : i \in {j \in 1..Len(b[h]) : b[h][j] = n}} :
             h \in DOMAIN b}

\* The step is a call of queue_recalc on a node that is already Pending.
QueuePending ==
    /\ test'.fn = "queue_recalc"
    /\ panic = "none"
    /\ nodes[test'.arg].recalc_state = "Pending"

\* Every node enqueued and not yet popped is Pending and linked exactly
\* once, in the bucket of the height it was enqueued at; no other node is
\* linked.
LinkedOnce ==
    LET b == Buckets IN
    panic = "none" =>
        /\ \A i \in 1..Len(test.queued) :
              /\ nodes[test.queued[i].node].recalc_state = "Pending"
              /\ Cardinality(LinkedAt(b, test.queued[i].node)) = 1
              /\ \E hi \in LinkedAt(b, test.queued[i].node) :
                    hi[1] = test.queued[i].height
              /\ \A j \in 1..Len(test.queued) :
                    test.queued[j].node = test.queued[i].node => j = i
        /\ \A n \in Live :
              (\A i \in 1..Len(test.queued) : test.queued[i].node # n)
                  => /\ LinkedAt(b, n) = {}
                     /\ nodes[n].recalc_state # "Pending"

\* A node that recalc_pop_next returns was queued, and is then neither
\* queued nor linked until it is enqueued again.
PoppedOnce ==
    (Popped /\ test.popped.node # None) =>
        /\ \E i \in 1..Len(test.before) : PoppedIndex(i)
        /\ \A i \in 1..Len(test.queued) :
              test.queued[i].node # test.popped.node
        /\ LinkedAt(Buckets, test.popped.node) = {}

\* C20: queue_recalc on a node that is already Pending changes nothing: the
\* node stays linked exactly once in its bucket and is returned by
\* recalc_pop_next exactly once.
C20_EnqueueIdempotent ==
    /\ [][QueuePending => /\ nodes' = nodes
                          /\ recalc_queues' = recalc_queues
                          /\ recalc_min_height' = recalc_min_height
                          /\ recalc_max_height' = recalc_max_height
                          /\ panic' = panic
                          /\ test'.queued = test.queued]_vars
    /\ [](LinkedOnce /\ PoppedOnce)

C20_Witness ==
    /\ test.fn = "queue_recalc"
    /\ test.was = "Pending"
    /\ panic = "none"
    /\ Len(test.queued) = 2
    /\ test.queued[1].node = test.arg
    /\ test.queued[2].height = test.queued[1].height
    /\ LinkedOnce


\* The step is a call of Graph::insert; test.freed lists the nodes freed
\* and not yet reused, oldest first.
InsertStep == test'.fn = "insert" /\ test'.inserts = test.inserts + 1

\* C21: Graph::insert reuses the most recently freed node and allocates new
\* arena storage only when no freed node is left; the node it returns has
\* every bookkeeping field at its default and handle_count 1.
C21_InsertReusesLastFreed ==
    [][InsertStep =>
          /\ IF test.freed # <<>>
             THEN /\ test'.arg = test.freed[Len(test.freed)]
                  /\ arena_len' = arena_len
             ELSE /\ test'.arg = arena_len + 1
                  /\ arena_len' = arena_len + 1
          /\ nodes'[test'.arg] = NewNode
          /\ anchor'[test'.arg] = Const(123)]_vars


\* polls lists the calls of poll_updated made so far by the running or the
\* last operation, each with the height the node had when it was polled.
\* C22: within one stabilize() call, poll_updated is invoked in
\* non-decreasing height order.
C22_PollsByHeight ==
    op = "stabilize" =>
        \A i, j \in 1..Len(polls) : i < j => polls[i][2] <= polls[j][2]


\* C22 with its exception: within one stabilize() call, a poll is made at
\* a height below that of the poll before it only when the poll before it
\* returned Pending.
C22_LowerOnlyAfterPending ==
    op = "stabilize" =>
        \A i \in 1..(Len(polls) - 1) :
            polls[i + 1][2] < polls[i][2] => polls[i][3] = "Pending"

C22_Witness ==
    /\ op = "stabilize"
    /\ pc = "idle"
    /\ panic = "none"
    /\ Len(polls) >= 4
    /\ \E i \in 1..(Len(polls) - 1) :
          polls[i + 1][2] < polls[i][2] /\ polls[i][3] = "Pending"
    /\ \E i \in 1..(Len(polls) - 1) :
          polls[i + 1][2] > polls[i][2] /\ polls[i][3] # "Pending"
\* C23: Generation::increment advances the counter by one and, when the
\* 64-bit counter wraps around, skips zero and continues: the generation
\* is never zero and incrementing never fails.
IncrementStep == test'.fn = "increment" /\ test'.arg = test.arg + 1

C23_IncrementSkipsZero ==
    [][IncrementStep =>
          /\ panic' = "none"
          /\ generation' # U64Zero
          /\ generation' = IF generation = U64Max
                           THEN wrapping_add(U64Zero, 1)
                           ELSE wrapping_add(generation, 1)]_vars

\* C23, below the wrap-around: the counter advances by one, is not zero
\* and the call does not fail.
C23_IncrementBelowMax ==
    [][(IncrementStep /\ generation # U64Max) =>
          /\ panic' = "none"
          /\ generation' # U64Zero
          /\ generation' = wrapping_add(generation, 1)]_vars

\* C23 at the wrap-around: the call panics.
C23_IncrementAtMaxPanics ==
    [][(IncrementStep /\ generation = U64Max) =>
          panic' = "unwrap" /\ generation' = U64Max]_vars

C23_WitnessWrap ==
    /\ test.fn = "increment"
    /\ generation = U64Max
    /\ panic = "unwrap"
\* C24: between engine operations, for every node, a set last_update
\* comes with a set last_ready and last_update <= last_ready <= the
\* engine's generation; the generation never decreases.
StampsOrdered(n) ==
    nodes[n].last_update # None =>
        /\ nodes[n].last_ready # None
        /\ nodes[n].last_update <= nodes[n].last_ready
        /\ nodes[n].last_ready <= generation

C24_GenerationsOrdered ==
    /\ [](pc = "idle" => \A n \in Nodes : StampsOrdered(n))
    /\ [][generation' >= generation]_vars

C24_Witness ==
    /\ Idle
    /\ \E n \in Live : /\ nodes[n].last_update # None
                       /\ nodes[n].last_update < nodes[n].last_ready
                       /\ nodes[n].last_ready < generation
    /\ \E n \in Live : nodes[n].last_update = generation
\* C25: a poll that returns Pending without a request of that poll
\* having returned Pending makes the engine panic; a poll that returns
\* Pending after such a request is followed by the re-enqueueing of the
\* node at its current height, without a panic.
Polled == Len(polls') = Len(polls) + 1

LastPoll == polls[Len(polls)]

\* The node of the last poll is Pending and linked once, in the bucket of
\* its height.
Requeued ==
    LET n == LastPoll[1] IN
    /\ nodes[n].recalc_state = "Pending"
    /\ \E i \in 1..(MaxNodes + 1) :
          LinkedAt(Buckets, n) = {<<nodes[n].height, i>>}

C25_PendingUnrequested ==
    (Polled /\ LastPoll'[3] = "Pending" /\ ~LastPoll'[4])
        => panic' = "pending"

C25_PendingRequeues ==
    [][/\ C25_PendingUnrequested
       /\ (Polled /\ LastPoll'[3] = "Pending" /\ LastPoll'[4])
             => (panic' = "none" /\ Requeued')]_vars

\* C25 with the limit of the queue: the re-enqueueing panics when the
\* node's current height is not below the maximum height.
C25_PendingRequeuesBelowMax ==
    [][/\ C25_PendingUnrequested
       /\ (Polled /\ LastPoll'[3] = "Pending" /\ LastPoll'[4])
             => IF nodes'[LastPoll'[1]].height < recalc_queues_len(St)
                THEN panic' = "none" /\ Requeued'
                ELSE panic' = "height"]_vars

C25_Witness ==
    /\ topo = 19
    /\ panic = "pending"
    /\ Len(polls) >= 2
    /\ \E i \in 1..(Len(polls) - 1) :
          polls[i][1] = LastPoll[1] /\ polls[i][3] = "Pending" /\ polls[i][4]
    /\ LastPoll[3] = "Pending" /\ ~LastPoll[4]

C25_WitnessRaised ==
    /\ panic = "none"
    /\ polls # <<>>
    /\ LastPoll[3] = "Pending" /\ LastPoll[4]
    /\ nodes[LastPoll[1]].height > LastPoll[2]
    /\ Requeued
\* C26: after a node has called unrequest(child), the engine does not
\* call the node's mark_dirty for child (nor invalidate or reschedule the
\* node on that account) until the node requests child again.
C26_NoDirtyAfterUnrequest ==
    \A n \in Nodes : ~anchor[n].stale_dirty
\* C27: in no reachable state has the engine called mark_dirty on a
\* Variable or Constant node (the call panics).
C27_NoDirtyOnLeaves == panic # "dirty"

C27_Witness ==
    /\ Idle
    /\ op = "stabilize"
    /\ generation >= 3
    /\ Len(polls) >= 2
    /\ anchor[polls[1][1]].kind = "var"
    /\ polls[1][3] = "Updated"
    /\ anchor[polls[2][1]].kind \in {"map", "cutoff", "then"}
    /\ polls[1][1] \in {anchor[polls[2][1]].anchors[i] :
                          i \in 1..Len(anchor[polls[2][1]].anchors)}
\* C28: between engine operations, every node whose recalc_state is
\* Pending is linked in exactly one per-height queue, at the index equal
\* to its current height, with recalc_min_height <= height <=
\* recalc_max_height; no node that is not Pending is linked in any queue.
QueuedInOwnBucket(n) ==
    /\ \E i \in 1..(MaxNodes + 1) :
          LinkedAt(Buckets, n) = {<<nodes[n].height, i>>}
    /\ recalc_min_height <= nodes[n].height
    /\ nodes[n].height <= recalc_max_height

C28_PendingInOwnBucket ==
    Idle =>
        \A n \in Live :
            IF nodes[n].recalc_state = "Pending"
            THEN QueuedInOwnBucket(n)
            ELSE LinkedAt(Buckets, n) = {}

C28_Witness ==
    /\ Idle
    /\ generation >= 2
    /\ \E n, m \in Live :
          /\ n # m
          /\ nodes[n].recalc_state = "Pending"
          /\ nodes[m].recalc_state = "Pending"
          /\ nodes[n].height > 0
\* C29: the necessary_count of every node equals the number of nodes
\* whose necessary_children list contains it, whatever was requested,
\* unrequested, unobserved, freed or reused; a change of clean parents
\* alone changes no count.
NecessaryParents(c) ==
    {p \in 1..arena_len : c \in nodes[p].necessary_children}

C29_NecessaryCountMatches ==
    \A c \in 1..arena_len :
        nodes[c].necessary_count = Cardinality(NecessaryParents(c))

C29_Witness ==
    /\ Idle
    /\ topo = 21
    /\ test.fn = "insert"
    /\ test.arg = 4
    /\ nodes[2].necessary_count = 1
    /\ NecessaryParents(2) = {3}
    /\ nodes[3].observed
\* C30: dropping the last handle of a Pending node removes exactly that
\* node from its height bucket; every other queued node stays linked, in
\* the same order, whether the freed node was the head, in the middle or
\* the tail of its bucket.
\* Every bucket is a well-formed doubly linked list.
WellLinked ==
    \A h \in DOMAIN recalc_queues :
        /\ Len(Buckets[h]) <= MaxNodes
        /\ \A i \in 1..Len(Buckets[h]) :
              nodes[Buckets[h][i]].prev =
                  IF i = 1 THEN None ELSE Buckets[h][i - 1]

FreePending(n) ==
    /\ test'.fn = "drop"
    /\ test'.arg = n
    /\ panic = "none"
    /\ nodes[n].handle_count = 1
    /\ nodes[n].recalc_state = "Pending"
    /\ WellLinked

C30_FreeUnlinksOnlyFreed ==
    [][\A n \in Live : FreePending(n) =>
          /\ panic' = "none"
          /\ \A h \in DOMAIN recalc_queues :
                Buckets'[h] = SelectSeq(Buckets[h], LAMBDA m : m # n)]_vars

\* ---------------------------------------------------------------- C31
\* The calls of request that returned during the polls of the running or the
\* last operation.
Requests ==
    UNION {{polls[i][5][j] : j \in 1..Len(polls[i][5])} : i \in 1..Len(polls)}

\* C31: request returns Pending iff the child is not Ready or the call had to
\* raise the requester's height, and then leaves child.clean_parents alone;
\* otherwise it appends the requester to child.clean_parents and returns
\* Unchanged iff child.last_update and requester.last_ready are both set and
\* child.last_update <= requester.last_ready, and Updated in every other case.
C31_RequestResult ==
    \A r \in Requests :
        /\ r.poll = "Pending" <=> (~r.child_ready \/ ~r.lower)
        /\ r.poll = "Pending" => r.parents_after = r.parents_before
        /\ r.poll # "Pending" =>
              /\ r.parents_after = Append(r.parents_before, r.self)
              /\ r.poll = "Unchanged" <=>
                    /\ r.last_update # None
                    /\ r.last_ready # None
                    /\ r.last_update <= r.last_ready
              /\ r.poll \in {"Unchanged", "Updated"}

\* One operation in which request returned Pending for a child that was not
\* Ready, Pending for a raised requester, Unchanged and Updated.
C31_Witness ==
    /\ \E r \in Requests : r.poll = "Pending" /\ ~r.child_ready
    /\ \E r \in Requests : r.poll = "Pending" /\ r.child_ready /\ ~r.lower
    /\ \E r \in Requests : r.poll = "Unchanged"
    /\ \E r \in Requests : r.poll = "Updated"


\* ---------------------------------------------------------------- C32
\* What recalc_pop_next returns in the current state.
NextPop == recalc_pop_next(St)

\* The next pop returns a node from a bucket that is not at the node's
\* current height.
StalePop ==
    NextPop.node # None /\ nodes[NextPop.node].height # NextPop.height

\* Node n is Pending and linked once, in the bucket of its current height.
RequeuedAtHeight(n) ==
    /\ nodes[n].recalc_state = "Pending"
    /\ \E i \in 1..(MaxNodes + 1) :
          LinkedAt(Buckets, n) = {<<nodes[n].height, i>>}

\* An iteration of the stabilize0 loop polls exactly the popped node, and
\* only when it was popped from the bucket of its current height.
PollsPoppedAtHeight ==
    (Step /\ Polled) =>
        /\ ~StalePop
        /\ LastPoll'[1] = NextPop.node
        /\ LastPoll'[2] = NextPop.height

\* A node leaves the Pending state only by being polled.
PendingUntilPolled ==
    \A n \in 1..MaxNodes :
        (/\ n \in DOMAIN nodes /\ n \in DOMAIN nodes'
         /\ nodes[n].recalc_state = "Pending"
         /\ nodes'[n].recalc_state # "Pending")
            => Polled /\ LastPoll'[1] = n

\* stabilize returns only when no node is left Pending.
ReturnsWithoutPending ==
    (StabilizeReturn \/ GetReturn) =>
        \A n \in DOMAIN nodes' : nodes'[n].recalc_state # "Pending"

\* C32: poll_updated is only invoked on a node popped from the bucket of its
\* current height; a node popped from a bucket of a stale height is not
\* polled on that pop and is re-enqueued at its current height, and it stays
\* Pending until it is polled, which happens before the operation returns.
C32_StalePopRequeues ==
    [][/\ PollsPoppedAtHeight
       /\ (Step /\ StalePop) =>
             /\ polls' = polls
             /\ panic' = "none"
             /\ \E n \in DOMAIN nodes : n = NextPop.node /\ RequeuedAtHeight(n)'
       /\ PendingUntilPolled
       /\ ReturnsWithoutPending]_vars

\* C32 with the limit of the queue: re-enqueueing a node whose current height
\* is not below the maximum height panics.
C32_StalePopRequeuesBelowMax ==
    [][/\ PollsPoppedAtHeight
       /\ (Step /\ StalePop) =>
             /\ polls' = polls
             /\ \E n \in DOMAIN nodes :
                   /\ n = NextPop.node
                   /\ IF nodes[n].height < recalc_queues_len(St)
                      THEN panic' = "none" /\ RequeuedAtHeight(n)'
                      ELSE panic' = "height"
       /\ PendingUntilPolled
       /\ ReturnsWithoutPending]_vars

\* The stabilize0 loop is about to pop a node that was raised after it was
\* enqueued, having polled other nodes since.
C32_Witness ==
    /\ Running
    /\ panic = "none"
    /\ polls # <<>>
    /\ StalePop
    /\ nodes[NextPop.node].height < recalc_queues_len(St)

\* The same, with the node raised to the maximum height.
C32_WitnessAtMax ==
    /\ Running
    /\ panic = "none"
    /\ StalePop
    /\ nodes[NextPop.node].height >= recalc_queues_len(St)


\* ---------------------------------------------------------------- C33
\* The number of queued nodes linked in a bucket other than that of their
\* current height.
StaleCount ==
    Cardinality({n \in Live : \E hi \in LinkedAt(Buckets, n) :
                                  hi[1] # nodes[n].height})

\* Every iteration of the stabilize0 loop either polls a node or moves a
\* node from a stale bucket to the bucket of its height.
LoopProgress ==
    (pc = "run" /\ pc' = "run" /\ op' = op) =>
        \/ Len(polls') = Len(polls) + 1
        \/ polls' = polls /\ StaleCount' < StaleCount

\* The polls of one operation are bounded: a node is polled to completion
\* at most once, and at most three times in all on average.
PollsBounded ==
    /\ Len(polls) <= 3 * arena_len
    /\ \A n \in 1..arena_len :
          Cardinality({i \in 1..Len(polls) :
                          polls[i][1] = n /\ polls[i][3] # "Pending"}) <= 1

\* No bucket holds a node and no live node is Pending.
QueueDrained ==
    /\ \A h \in DOMAIN recalc_queues : recalc_queues[h] = None
    /\ \A n \in Live : nodes[n].recalc_state # "Pending"

\* C33: for an acyclic graph below the maximum height whose computations obey
\* the node contract, stabilize() and get() terminate (no panic, every loop
\* iteration makes progress in a bounded measure), and on return the recalc
\* queue is empty and no node is Pending.
C33_TerminatesDrained ==
    /\ [][/\ LoopProgress
          /\ (StabilizeReturn \/ GetReturn) => QueueDrained']_vars
    /\ [](panic = "none" /\ PollsBounded)

\* A get has returned after a run in which a node was polled three times.
C33_Witness ==
    /\ Idle
    /\ op \in {"get", "get2"}
    /\ QueueDrained
    /\ \E n \in Live :
          Cardinality({i \in 1..Len(polls) : polls[i][1] = n}) >= 3


\* ---------------------------------------------------------------- C34
Unnecessary(n) == check_observed_raw(St, n) = "Unnecessary"

DirtyMarked == {dirty_marks[i] : i \in 1..Len(dirty_marks)}

\* The first half of stabilize() and of get(): update_dirty_marks.
Prologue == Stabilize \/ \E a \in Nodes : Get(a)

\* The nodes reached from the set S along clean_parents links through Ready
\* unnecessary nodes only: the nodes the recursion of mark_dirty0 visits.
RECURSIVE UnnecessaryClosure(_, _)
UnnecessaryClosure(S, k) ==
    IF k = 0 THEN S
    ELSE UnnecessaryClosure(
            S \cup {p \in CleanParentsOf(S) :
                       Unnecessary(p) /\ nodes[p].recalc_state = "Ready"},
            k - 1)

ReadyUnnecessary(S) ==
    {n \in S \cap Live : Unnecessary(n) /\ nodes[n].recalc_state = "Ready"}

\* Node n was requested during the last poll.
RequestedInLastPoll(n) ==
    \E j \in 1..Len(LastPoll[5]) : LastPoll[5][j].child = n

\* An unnecessary node becomes Pending only by a request of a polled node,
\* by get's queue_recalc of its target, or by being marked observed.
EnqueuedOnDemand ==
    \A n \in Live :
        (/\ Unnecessary(n)
         /\ nodes[n].recalc_state # "Pending"
         /\ nodes'[n].recalc_state = "Pending")
            => \/ Step /\ Polled /\ \E m \in Live : m = n /\ RequestedInLastPoll(m)'
               \/ GetRequeue /\ n = target
               \/ nodes'[n].observed

\* update_dirty_marks turns the Ready unnecessary nodes it reaches from an
\* unnecessary dirty node into Needed and drains their clean parents.
PrologueMarksNeeded ==
    Prologue =>
        \A n \in UnnecessaryClosure(ReadyUnnecessary(DirtyMarked), MaxNodes) :
            nodes'[n].recalc_state = "Needed" /\ nodes'[n].clean_parents = <<>>

\* A poll that returns Updated turns the Ready unnecessary nodes it reaches
\* from the clean parents of the polled node into Needed, without polling
\* them.
UpdatedMarksNeeded ==
    (Step /\ Polled /\ LastPoll'[3] = "Updated") =>
        \A n \in UnnecessaryClosure(
                    ReadyUnnecessary(CleanParentsOf({NextPop.node})),
                    MaxNodes) :
            nodes'[n].recalc_state = "Needed" /\ nodes'[n].clean_parents = <<>>

\* After stabilize(), no unnecessary node that depends on a variable updated
\* in this stabilization is still Ready without having been polled.
DependentsNeeded ==
    (pc = "idle" /\ panic = "none" /\ test.fn = "stabilize") =>
        \A v \in Live :
            (anchor[v].kind = "var" /\ nodes[v].last_update = generation) =>
                \A n \in ReachableFrom(v) :
                    (Unnecessary(n) /\ nodes[n].last_ready # generation)
                        => nodes[n].recalc_state # "Ready"

\* C34: dirty propagation never enqueues an Unnecessary node: after
\* Variable::set, stabilize() turns every Ready unobserved, unnecessary
\* dependent of the variable (transitively through clean_parents) into Needed
\* without polling it, and such a node is enqueued only when a get or a
\* request from a polled node demands it.
C34_DependentsNeeded ==
    [][EnqueuedOnDemand]_vars /\ []DependentsNeeded

\* C34 for the dependents that mark_dirty0 reaches: those reached through
\* unnecessary Ready nodes from the dirty variable or from a node that
\* recalculated to Updated.
C34_ReachedDependentsNeeded ==
    [][EnqueuedOnDemand /\ PrologueMarksNeeded /\ UpdatedMarksNeeded]_vars

\* stabilize() has returned after polling a variable and a map; a node that
\* had been Ready is Needed and was not polled.
C34_Witness ==
    /\ pc = "idle" /\ panic = "none" /\ test.fn = "stabilize"
    /\ Len(polls) >= 2
    /\ \E n \in Live :
          /\ Unnecessary(n)
          /\ nodes[n].recalc_state = "Needed"
          /\ nodes[n].last_ready \notin {None, generation}
          /\ \A i \in 1..Len(polls) : polls[i][1] # n
          /\ \E i \in 1..Len(polls) :
                /\ polls[i][3] = "Updated"
                /\ \E j \in 1..Len(anchor[n].anchors) :
                      anchor[n].anchors[j] = polls[i][1]


\* ---------------------------------------------------------------- C35
\* Node d is a map all of whose inputs are m or depend on their sources only
\* through m.
RECURSIVE OnlyThrough(_, _, _)
OnlyThrough(d, m, k) ==
    /\ k > 0
    /\ d # m
    /\ anchor[d].kind = "map"
    /\ \A i \in 1..Len(anchor[d].anchors) :
          \/ anchor[d].anchors[i] = m
          \/ OnlyThrough(anchor[d].anchors[i], m, k - 1)

\* Node d is e or depends on e.
RECURSIVE DependsOn(_, _, _)
DependsOn(d, e, k) ==
    \/ d = e
    \/ /\ k > 0
       /\ \E i \in 1..Len(anchor[d].anchors) :
             DependsOn(anchor[d].anchors[i], e, k - 1)

\* In the current operation the map m invoked its function again and
\* reported Unchanged: its new output equals its previous output.
MapUnchanged(m) ==
    /\ anchor[m].kind = "map"
    /\ \E i \in 1..Len(fcalls) :
          fcalls[i].n = m /\ ~fcalls[i].first /\ fcalls[i].out = anchor[m].output
    /\ \E i \in 1..Len(polls) : polls[i][1] = m /\ polls[i][3] = "Unchanged"
    /\ \A i \in 1..Len(polls) : polls[i][1] = m => polls[i][3] # "Updated"

\* When node e requested an input in the current operation, that input had
\* been updated, in an earlier operation, after e was last ready.
StaleBefore(e) ==
    \E r \in Requests :
        /\ r.self = e
        /\ r.last_update # None /\ r.last_ready # None
        /\ r.last_ready < r.last_update
        /\ r.last_update < generation

\* C35 as stated: when a Map recomputes to an equal output it reports
\* Unchanged, its last_update is not advanced, and no node that depends on
\* the changed source only through that Map re-invokes its function.
C35_EqualOutputBlocks ==
    \A m \in Live :
        MapUnchanged(m) =>
            /\ nodes[m].last_update # generation
            /\ \A d \in Live : OnlyThrough(d, m, MaxNodes) => ~Reinvoked(d)

\* C35 for dependents that were up to date: in an operation in which the Map
\* is not updated (it recomputes to an equal output, or is not polled, as in
\* a later get), a dependent re-invokes its function only if it, or a node
\* between the Map and it, had missed an earlier update of its input.
C35_EqualOutputBlocksUpToDate ==
    \A m \in Live :
        /\ MapUnchanged(m) => nodes[m].last_update # generation
        /\ (anchor[m].kind = "map" /\ nodes[m].last_update # generation) =>
              \A d \in Live :
                  (OnlyThrough(d, m, MaxNodes) /\ Reinvoked(d)) =>
                      \E e \in Live :
                          /\ OnlyThrough(e, m, MaxNodes)
                          /\ DependsOn(d, e, MaxNodes)
                          /\ StaleBefore(e)

\* An operation has returned in which the first map of the chain recomputed
\* to an equal output and the map above it was polled without re-invoking
\* its function.
C35_Witness ==
    /\ Idle
    /\ topo = 1
    /\ MapUnchanged(2)
    /\ \E i \in 1..Len(polls) : polls[i][1] = 3
    /\ ~Reinvoked(3) /\ ~Reinvoked(4)


\* ---------------------------------------------------------------- C36
\* Every clean parent reachable from p is higher than the node it is a
\* clean parent of, and p itself.
ParentsRaised(p) ==
    \A x \in {p} \cup ReachableFrom(p) :
        \A i \in 1..Len(nodes[x].clean_parents) :
            nodes[nodes[x].clean_parents[i]].height > nodes[x].height

HeightsGrow == \A n \in Nodes : nodes'[n].height >= nodes[n].height

\* C36: ensure_height_increases(child, parent) returns Ok(true) without
\* changing any height iff height(child) < height(parent) held before the
\* call; otherwise, on success, it sets height(parent) to exactly
\* height(child) + 1, raises every transitive clean parent of parent as
\* needed, returns Ok(false), and an immediately repeated call returns
\* Ok(true). No height ever decreases, also when clean parents are drained.
C36_EnsureHeightResult ==
    [][/\ HeightsGrow
       /\ \A c, p \in Nodes :
             (EnsureHeight(c, p) /\ call'.res \in {"true", "false"}) =>
                 /\ call'.res = "true" <=> nodes[c].height < nodes[p].height
                 /\ call'.res = "true" =>
                       \A n \in Nodes : nodes'[n].height = nodes[n].height
                 /\ call'.res = "false" =>
                       /\ nodes'[p].height = nodes[c].height + 1
                       /\ nodes'[c].height = nodes[c].height
                       /\ \E q \in Nodes : q = p /\ ParentsRaised(q)'
                       /\ \A n \in Nodes \ ({p} \cup ReachableFrom(p)) :
                             nodes'[n].height = nodes[n].height
                 /\ (call.res = "false" /\ call.child = c /\ call.parent = p)
                       => call'.res = "true"]_vars

\* A node that had been raised and then lost its place as a clean parent to
\* drain_clean_parents kept its height; ensure_height_increases for it as
\* child returned Ok(false), raising the parent and the parent's clean
\* parent above it, and the repeated call returned Ok(true).
C36_Witness ==
    /\ call.res = "true"
    /\ nodes[call.child].clean_parents = <<>>
    /\ nodes[call.child].height = 1
    /\ nodes[call.parent].height = 2
    /\ \E q \in Live :
          /\ nodes[call.parent].clean_parents = <<q>>
          /\ nodes[q].height = 3


\* ---------------------------------------------------------------- C37
\* The nodes reached from the set S along necessary_children links.
RECURSIVE NecessaryClosure(_, _)
NecessaryClosure(S, k) ==
    IF k = 0 THEN S
    ELSE NecessaryClosure(
            S \cup UNION {nodes[x].necessary_children : x \in S}, k - 1)

\* Every node of S that is Unnecessary lists no necessary child.
Released(S) == \A x \in S : Unnecessary(x) => nodes[x].necessary_children = {}

\* The step polls the Then node t, observed or necessary, and its inner
\* anchor changes to a different anchor.
ThenSwitches(t) ==
    /\ Polled /\ LastPoll'[1] = t
    /\ anchor[t].kind = "then"
    /\ ~Unnecessary(t)
    /\ anchor[t].f_anchor # None
    /\ anchor'[t].f_anchor # None
    /\ anchor'[t].f_anchor # anchor[t].f_anchor

\* Necessity has been released from every node that was reached from a
\* along necessary_children links before the step.
ReleasedFrom(a) ==
    \E S \in SUBSET Nodes : S = NecessaryClosure({a}, MaxNodes) /\ Released(S)'

\* The Then node t lists its inner anchor as necessary child.
InnerListed(t) ==
    /\ anchor[t].f_anchor # None
    /\ anchor[t].f_anchor \in nodes[t].necessary_children

\* A completed poll of an observed or necessary Then node leaves its inner
\* anchor listed as its necessary child, and the anchor stays listed until
\* the Then node is polled again or becomes Unnecessary: after the
\* stabilization the inner anchor is Necessary.
InnerNecessary ==
    \A t \in Nodes :
        /\ (/\ Polled /\ LastPoll'[1] = t
             /\ anchor[t].kind = "then"
             /\ ~Unnecessary(t)
             /\ LastPoll'[3] \in {"Updated", "Unchanged"})
                => /\ InnerListed(t)'
                   /\ \E b \in Nodes : b = anchor'[t].f_anchor /\ ~Unnecessary(b)'
        /\ (/\ anchor[t].kind = "then"
             /\ InnerListed(t)
             /\ ~(Polled /\ LastPoll'[1] = t)
             /\ ~Unnecessary(t)')
                => InnerListed(t)'

\* C37: when an observed or necessary Then node switches from inner anchor A
\* to a different inner anchor B, A's necessary_count is decremented by one
\* and, if A thereby becomes Unnecessary, necessity is released transitively
\* through A's necessary_children; after the stabilization B is Necessary
\* (or Observed).
C37_SwitchReleases ==
    [][/\ \A t \in Nodes :
             ThenSwitches(t) =>
                 LET a == anchor[t].f_anchor IN
                 /\ nodes'[a].necessary_count = nodes[a].necessary_count - 1
                 /\ ReleasedFrom(a)
       /\ InnerNecessary]_vars

\* C37 for an inner anchor the Then lists as necessary child: the count of
\* an unlisted A is left alone.
C37_SwitchReleasesListed ==
    [][/\ \A t \in Nodes :
             ThenSwitches(t) =>
                 LET a == anchor[t].f_anchor IN
                 /\ nodes'[a].necessary_count =
                       IF a \in nodes[t].necessary_children
                       THEN nodes[a].necessary_count - 1
                       ELSE nodes[a].necessary_count
                 /\ ReleasedFrom(a)
       /\ InnerNecessary]_vars

\* An observed Then has switched away from a map that it listed as
\* necessary child: the map and the map's input have been released, and the
\* new inner anchor is necessary.
C37_Witness ==
    /\ Idle
    /\ \E t \in Live :
          /\ anchor[t].kind = "then"
          /\ ~Unnecessary(t)
          /\ nodes[t].last_update = generation
          /\ anchor[t].f_anchor # None
          /\ nodes[anchor[t].f_anchor].necessary_count > 0
          /\ \E a \in Live :
                /\ anchor[a].kind = "map"
                /\ a \in {anchor[t].cands[i] : i \in 1..Len(anchor[t].cands)}
                /\ a # anchor[t].f_anchor
                /\ nodes[a].last_ready # None
                /\ Unnecessary(a)
                /\ nodes[a].necessary_children = {}

\* ---------------------------------------------------------------- C38
\* The slots whose node has been freed and not been reused.
Freed == {n \in 1..arena_len : n \notin Live}

\* Node n is referenced by a live node's clean_parents or
\* necessary_children list, linked in a recalc queue, or under a pending
\* dirty mark.
Referenced(n) ==
    \/ \E m \in Live :
          \/ \E i \in 1..Len(nodes[m].clean_parents) :
                nodes[m].clean_parents[i] = n
          \/ n \in nodes[m].necessary_children
    \/ LinkedAt(Buckets, n) # {}
    \/ \E i \in 1..Len(dirty_marks) : dirty_marks[i] = n

\* C38: no dangling references: a freed node is in no live node's
\* clean_parents or necessary_children list, in no recalc queue and under
\* no pending dirty mark, and neither dirty propagation nor stabilization
\* unwraps a freed node's cleared computation or calls mark_dirty on a
\* node that cannot have inputs.
C38_NoDanglingReferences ==
    /\ \A n \in Freed : ~Referenced(n)
    /\ panic \notin {"dirty", "unwrap"}

\* ---------------------------------------------------------------- C39
\* The nodes kept necessary by a chain of necessary_children links that
\* starts at an observed node.
KeptNecessary ==
    NecessaryClosure({m \in Live : nodes[m].observed}, MaxNodes)

\* C39: in every state an Unnecessary node lists no necessary child, and
\* every non-observed node with necessary_count > 0 is reached from an
\* observed node along necessary_children links, also after observed or
\* necessary nodes have been freed.
C39_UnnecessaryListsNoChild ==
    /\ \A n \in Live : Unnecessary(n) => nodes[n].necessary_children = {}
    /\ \A n \in Live :
          ~nodes[n].observed /\ nodes[n].necessary_count > 0 =>
              n \in KeptNecessary

\* ---------------------------------------------------------------- C40
\* C40: in every state a node whose recalc_state is Needed has no clean
\* parents, and every call of request that recorded the requester as clean
\* parent found the child Ready.
C40_NeededHasNoCleanParents ==
    /\ \A n \in Live :
          nodes[n].recalc_state = "Needed" => nodes[n].clean_parents = <<>>
    /\ \A r \in Requests :
          r.parents_after # r.parents_before => r.child_ready

\* A node that had been computed and a node computed from it are both
\* Needed again, the dirty mark having travelled along the clean-parent
\* link that was drained, while another Ready node keeps its clean parents.
C40_Witness ==
    \E n \in Live : \E p \in Live :
        /\ nodes[n].recalc_state = "Needed" /\ nodes[n].last_ready # None
        /\ nodes[p].recalc_state = "Needed" /\ nodes[p].last_ready # None
        /\ \E i \in 1..Len(held(anchor[p])) : held(anchor[p])[i] = n
        /\ nodes[n].clean_parents = <<>>
        /\ \E c \in Live :
              nodes[c].recalc_state = "Ready" /\ nodes[c].clean_parents # <<>>
====
